---- MODULE Spec2Model ----
(***************************************************************************)
(* Aurora dashboard: the backend (server.js, here src/unnamed/part_000)   *)
(* and the page script (src/assets/js/main.js).                            *)
(*                                                                         *)
(* The module holds these state machines over one set of variables:        *)
(*   SpecTime       parseToUTC / normalizeUtcIso / shiftIso on one string  *)
(*   SpecPick       toNumber / parseSwpc / pick on one upstream row        *)
(*   SpecSolarwind  the try-block of getSolarwind on two upstream feeds    *)
(*   Spec           the read-through cache and the HTTP endpoints          *)
(*   SpecFetchPair  the two upstream requests of getSolarwind              *)
(*   SpecKp         getKp on one body of the Kp feed                       *)
(*   SpecHttp       parameter handling of the endpoints, and the proxies   *)
(*   SpecWarm       refreshAll, the periodic warming task                  *)
(*   SpecFmiXml     parseFmiMagnetometerXml on one response body           *)
(*   SpecFeed       parseSwpc on one table in either of its two formats    *)
(*   SpecSat        getSolarwind on feeds whose rows name the spacecraft   *)
(*   SpecDash       the page's loaders, their timers and the time zone     *)
(* Each machine leaves the variables of the others at their idle value.    *)
(*                                                                         *)
(* Time is counted in whole hours.  A timestamp string is a record         *)
(* [wall, sep, mark]: the wall-clock reading, the date/time separator      *)
(* ("T" or " ") and the time-zone marker ("" when absent).                 *)
(***************************************************************************)
EXTENDS Integers, Sequences, FiniteSets, TLC

VARIABLES
  tz,          \* the server's local time zone, hours east of UTC
  tIn,         \* SpecTime: the timestamp string under conversion
  tOut,        \* SpecTime: what the conversions returned for tIn
  pkJson,      \* SpecPick: one upstream row as received (field name -> raw value)
  pkOut,       \* SpecPick: what parse-then-pick returned for pkJson
  plasmaJson,  \* SpecSolarwind: body of the plasma feed (sequence of rows)
  magJson,     \* SpecSolarwind: body of the magnetic-field feed
  magMarked,   \* SpecSolarwind: whether the magnetic feed writes a trailing Z
  offsetMin,   \* SpecSolarwind: TIME_OFFSET_MIN, in hours
  swOut,       \* SpecSolarwind: the payload getSolarwind built from the feeds
  ep,          \* Spec: the endpoint (and cache key) this behaviour exercises
  clock,       \* Spec: Date.now()
  entry,       \* Spec: the cache entry of the key, [data, ts]
  calls,       \* Spec: the requests in flight, slot -> call record
  resp,        \* Spec: the last completed request, with the entry before and after
  swRes,       \* SpecFetchPair: state of the plasma and the magnetic request
  kpJson,      \* SpecKp: body of the Kp feed (header row, then data rows)
  kpOut,       \* SpecKp: the payload getKp returned for kpJson
  req,         \* SpecHttp: the inbound request, [path, query parameters]
  tile,        \* SpecHttp: cache.fmiRadar[key] for the key of req
  reply,       \* SpecHttp: how the last request was answered
  wCache,      \* SpecWarm: the cache entries of the resources refreshAll covers
  wRun,        \* SpecWarm: the run of refreshAll in progress
  wDue,        \* SpecWarm: when the interval timer fires next
  wLog,        \* SpecWarm: the getter calls of the last completed run
  xmlIn,       \* SpecFmiXml: the element blocks of the FMI response body
  xmlOut,      \* SpecFmiXml: the rows parseFmiMagnetometerXml returned
  feedTbl,     \* SpecFeed: one table of a feed, [head, rows]
  feedOut,     \* SpecFeed: what parseSwpc returned for either format of feedTbl
  stateData,   \* SpecDash: state.data of the dashboard page
  charts,      \* SpecDash: what the Dst and the Bx chart were last drawn from
  tzSel,       \* SpecDash: the time zone selected on the page
  inflight     \* SpecDash: the loader calls waiting for their responses

timeVars == <<tIn, tOut>>
pickVars == <<pkJson, pkOut>>
swVars   == <<plasmaJson, magJson, magMarked, offsetMin, swOut>>
srvVars  == <<ep, clock, entry, calls, resp>>
pairVars == <<swRes>>
kpVars   == <<kpJson, kpOut>>
httpVars == <<req, tile, reply>>
warmVars == <<wCache, wRun, wDue, wLog>>
xmlVars  == <<xmlIn, xmlOut>>
feedVars == <<feedTbl, feedOut>>
dashVars == <<stateData, charts, tzSel, inflight>>
\* The variables of the machines that follow Spec.
restVars == <<pairVars, kpVars, httpVars, warmVars, xmlVars, feedVars,
              dashVars>>
vars     == <<tz, tIn, tOut, pkJson, pkOut, plasmaJson, magJson, magMarked,
              offsetMin, swOut, ep, clock, entry, calls, resp, swRes, kpJson,
              kpOut, req, tile, reply, wCache, wRun, wDue, wLog, xmlIn,
              xmlOut, feedTbl, feedOut, stateData, charts, tzSel, inflight>>

\* JavaScript values.  Numbers are counted in thousandths (4504 is 4.504).
Null == [t |-> "null"]
Undef == [t |-> "undef"]                 \* undefined: an absent field
NaN == [t |-> "nan"]                     \* a number that is not finite
Num(n) == [t |-> "num", n |-> n]         \* a finite number
\* A string: a numeric prefix (<<>> when it has none) followed by other text.
Str(pre, rest) == [t |-> "str", pre |-> pre, rest |-> rest]
EmptyStr == Str(<<>>, "")
Time(s) == [t |-> "time", ts |-> s]      \* a string holding a timestamp
\* An object: f maps each of its own keys to a value.
Obj(f) == [t |-> "obj", f |-> f]
EmptyObj == Obj(<<>>)

\* A field name: the lower-case name it is a spelling of, whether some letter
\* is in upper case, and whether an underscore is dropped or displaced.
Name(base, up, us) == [base |-> base, up |-> up, us |-> us]
Key(base) == Name(base, FALSE, FALSE)    \* the name spelled as in the code

-----------------------------------------------------------------------------
(* Bounds *)

MaxWall == 3       \* wall-clock readings range over 0..MaxWall
MaxFields == 2     \* fields of the upstream row that SpecPick builds
MaxRows == 4       \* rows the two solar-wind feeds hold together
ChartWindow == 2   \* stands for the 60 of times.slice(-60)
MaxClock == 6      \* Date.now() ranges over 0..MaxClock

\* Cache lifetimes, in units of two minutes.
TTL_MS == 2
WEATHER_TTL_MS == 5

Walls == 0..MaxWall
TimeZones == {-1, 0, 2}

-----------------------------------------------------------------------------
(* Timestamps: Date parsing and formatting *)

Seps == {"T", " "}
Marks == {"", "Z", "+01:00", "-01:00"}
TimeStrings == [wall : Walls, sep : Seps, mark : Marks]

\* Hours east of UTC that a marker denotes.
MarkOffset(m) == CASE m = "+01:00" -> 1
                   [] m = "-01:00" -> -1
                   [] OTHER -> 0

\* new Date(str).getTime(): a string without marker is read as server-local
\* time, a marked one as the instant its marker denotes.
DateParse(s, zone) ==
  IF s.mark = "" THEN s.wall - zone ELSE s.wall - MarkOffset(s.mark)

\* Date.prototype.toISOString(): always "T"-separated with a trailing Z.
ToISOString(ms) == [wall |-> ms, sep |-> "T", mark |-> "Z"]

\* str.replace(' ', 'T')
ReplaceSpace(s) == [s EXCEPT !.sep = "T"]

\* /Z|[+\-]\d\d:?\d\d$/.test(str)
HasTzMarker(s) == s.mark \in {"Z", "+01:00", "-01:00"}

\* Mutant: the 'Z' is not appended, so an unmarked string is read as local time.
parseToUTC_NoZ(s, zone) == DateParse(ReplaceSpace(s), zone)

parseToUTC(s, zone) ==
  IF HasTzMarker(s)
    THEN DateParse(ReplaceSpace(s), zone)
    ELSE DateParse([ReplaceSpace(s) EXCEPT !.mark = "Z"], zone)

normalizeUtcIso(s, zone) == ToISOString(parseToUTC(s, zone))

shiftIso(iso, minutes, zone) == ToISOString(parseToUTC(iso, zone) + minutes)

\* fmtHM: the local hour of the instant an ISO string denotes.
fmtHM(iso, zone) == (DateParse(iso, zone) + zone) % 24

-----------------------------------------------------------------------------
(* Value Normalizer: toNumber, round1, round2, pick *)

\* parseFloat(v) for a string v: its numeric prefix, NaN when it has none.
\* A timestamp string starts with its year.
parseFloat(v) ==
  IF v.t = "str" /\ v.pre # <<>> THEN Num(v.pre[1])
  ELSE IF v.t = "time" THEN Num(2024000)
  ELSE NaN

toNumber(v) ==
  LET n == IF v.t \in {"num", "nan"} THEN v
           ELSE IF v.t \in {"str", "time"} THEN parseFloat(v)
           ELSE NaN
  IN  IF n.t = "num" THEN n ELSE Null

\* Math.round(x) is floor(x + 0.5).
round1(v) == IF v \in {Null, Undef} THEN Null ELSE Num(((v.n + 50) \div 100) * 100)
round2(v) == IF v \in {Null, Undef} THEN Null ELSE Num(((v.n + 5) \div 10) * 10)

\* row[k] of a JavaScript object.
Get(row, k) == IF k \in DOMAIN row.f THEN row.f[k] ELSE Undef

\* The test of line 142: the field is there and is not the empty string.
Present(v) == v # Undef /\ v # Null /\ v # EmptyStr

RECURSIVE pickFrom(_, _, _)
pickFrom(row, keys, i) ==
  IF i > Len(keys) THEN Null
  ELSE IF Present(Get(row, keys[i])) /\ toNumber(Get(row, keys[i])) # Null
         THEN toNumber(Get(row, keys[i]))
         ELSE pickFrom(row, keys, i + 1)

\* Mutant: the first present key decides, numeric or not.
pick_FirstPresent(row, keys) ==
  LET hit == {i \in 1..Len(keys) : Present(Get(row, keys[i]))}
  IN  IF row = Null \/ hit = {} THEN Null
      ELSE toNumber(Get(row, keys[CHOOSE i \in hit : \A j \in hit : i <= j]))

\* A missing row is passed as Null (Map.get of an absent key).
pick(row, keys) == IF row = Null THEN Null ELSE pickFrom(row, keys, 1)

-----------------------------------------------------------------------------
(* Feed Parsers: parseSwpc on the array-of-objects format *)

\* String(k).toLowerCase(): the case is folded, the underscores stay.
toLowerCase(k) == [k EXCEPT !.up = FALSE]

\* o[k] = v
Put(o, k, v) ==
  Obj([x \in DOMAIN o.f \cup {k} |-> IF x = k THEN v ELSE o.f[x]])

\* Mutant: a value that is no number is replaced by null.
Converted_Nulled(key, v) ==
  IF key = Key("time_tag") THEN v
  ELSE IF v # Null /\ v # Undef /\ v # EmptyStr /\ toNumber(v) # Null
    THEN toNumber(v)
    ELSE Null

\* The value stored for one [k, v] of Object.entries(row), lines 100-105.
Converted(key, v) ==
  IF key # Key("time_tag") /\ v # Null /\ v # Undef /\ v # EmptyStr
       /\ toNumber(v) # Null
    THEN toNumber(v)
    ELSE v

\* Mutant: the key is stored as spelled upstream.
parseRowFrom_KeepCase(es, i, out) ==
  LET RECURSIVE go(_, _)
      go(j, o) == IF j > Len(es) THEN o
                  ELSE go(j + 1, Put(o, es[j].k, Converted(es[j].k, es[j].v)))
  IN  go(i, out)

RECURSIVE parseRowFrom(_, _, _)
parseRowFrom(es, i, out) ==
  IF i > Len(es) THEN out
  ELSE parseRowFrom(es, i + 1,
         Put(out, toLowerCase(es[i].k),
             Converted(toLowerCase(es[i].k), es[i].v)))

\* The map callback of lines 97-108; es is Object.entries(row).
parseRow(es) == parseRowFrom(es, 1, EmptyObj)

\* JSON.parse of one row: the object whose entries are es.
RECURSIVE rawRowFrom(_, _, _)
rawRowFrom(es, i, out) ==
  IF i > Len(es) THEN out
  ELSE rawRowFrom(es, i + 1, Put(out, es[i].k, es[i].v))

RawRow(es) == rawRowFrom(es, 1, EmptyObj)

\* The truthiness test of .filter((o) => o.time_tag).
Truthy(v) ==
  CASE v.t \in {"undef", "null", "nan"} -> FALSE
    [] v.t = "num" -> v.n # 0
    [] v.t = "str" -> v # EmptyStr
    [] OTHER -> TRUE

RECURSIVE parseSwpcFrom(_, _)
parseSwpcFrom(json, i) ==
  IF i > Len(json) THEN <<>>
  ELSE LET o == parseRow(json[i])
       IN  IF Truthy(Get(o, Key("time_tag")))
             THEN <<o>> \o parseSwpcFrom(json, i + 1)
             ELSE parseSwpcFrom(json, i + 1)

\* parseSwpc on an array of objects (an empty array gives []).
parseSwpc(json) == parseSwpcFrom(json, 1)

\* The candidate keys of lines 410-415.
SpeedKeys == <<Key("speed"), Key("flow_speed"), Key("bulk_speed"), Key("v"),
               Key("proton_speed")>>
DensityKeys == <<Key("density"), Key("proton_density"), Key("n")>>
BzKeys == <<Key("bz_gsm"), Key("bz"), Key("bz_gse")>>
BtKeys == <<Key("bt"), Key("bt_total")>>

-----------------------------------------------------------------------------
(* Time Alignment Engine: the try-block of getSolarwind, lines 389-478 *)

TimeTag(o) == Get(o, Key("time_tag"))

\* new Map(rows.map((r) => [r.time_tag, r])).get(t): the last row carrying t,
\* undefined (passed on as Null) when there is none.
MapGet(rows, t) ==
  LET hit == {i \in 1..Len(rows) : TimeTag(rows[i]) = t}
  IN  IF hit = {} THEN Null
      ELSE rows[CHOOSE i \in hit : \A j \in hit : j <= i]

\* [...map.keys()]: the distinct time tags, in order of first appearance.
RECURSIVE MapKeysFrom(_, _, _)
MapKeysFrom(rows, i, acc) ==
  IF i > Len(rows) THEN acc
  ELSE MapKeysFrom(rows, i + 1,
         IF \E j \in 1..Len(acc) : acc[j] = TimeTag(rows[i])
           THEN acc ELSE Append(acc, TimeTag(rows[i])))

MapKeys(rows) == MapKeysFrom(rows, 1, <<>>)

\* Array.from(new Set([...a, ...b])): b's elements that a lacks follow a.
SetUnion(a, b) ==
  a \o SelectSeq(b, LAMBDA x : \A j \in 1..Len(a) : a[j] # x)

\* Mutant: the comparator reads both strings as UTC.
SortKey_Utc(t, zone) == parseToUTC(t.ts, zone)

\* The comparator's reading of a time tag: new Date(a), line 394.
SortKey(t, zone) == DateParse(t.ts, zone)

\* Array.prototype.sort is stable: x goes behind every element not after it.
RECURSIVE InsertByDate(_, _, _)
InsertByDate(sorted, x, zone) ==
  IF sorted = <<>> THEN <<x>>
  ELSE IF SortKey(sorted[Len(sorted)], zone) <= SortKey(x, zone)
         THEN Append(sorted, x)
         ELSE Append(InsertByDate(SubSeq(sorted, 1, Len(sorted) - 1), x, zone),
                     sorted[Len(sorted)])

RECURSIVE SortFrom(_, _, _, _)
SortFrom(seq, i, acc, zone) ==
  IF i > Len(seq) THEN acc
  ELSE SortFrom(seq, i + 1, InsertByDate(acc, seq[i], zone), zone)

\* times, line 394
UnionTimes(plasma, mag, zone) ==
  SortFrom(SetUnion(MapKeys(plasma), MapKeys(mag)), 1, <<>>, zone)

\* Mutant: the window is cut from the front of the union.
TailOf_FromFront(times) ==
  SubSeq(times, 1, IF Len(times) > ChartWindow THEN ChartWindow ELSE Len(times))

\* times.slice(-60)
TailOf(times) ==
  IF Len(times) > ChartWindow
    THEN SubSeq(times, Len(times) - ChartWindow + 1, Len(times))
    ELSE times

\* The timestamp pushed to timesOut for time tag t, lines 406-407.
Shifted(t, off, zone) ==
  IF off # 0 THEN shiftIso(normalizeUtcIso(t.ts, zone), off, zone)
  ELSE normalizeUtcIso(t.ts, zone)

\* sp != null ? round1(sp) : null
Rounded1(v) == IF v # Null THEN round1(v) ELSE Null
Rounded2(v) == IF v # Null THEN round2(v) ELSE Null

\* Mutant: a time tag without a value repeats the value of the one before it.
SeriesOf_CarriedOver(rows, tail, keys, places) ==
  [i \in 1..Len(tail) |->
     LET own == pick(MapGet(rows, tail[i]), keys)
         v == IF own = Null /\ i > 1 THEN pick(MapGet(rows, tail[i - 1]), keys)
              ELSE own
     IN  IF places = 1 THEN Rounded1(v) ELSE Rounded2(v)]

\* The chart series, lines 403-418: one entry per time tag of the window.
SeriesOf(rows, tail, keys, places) ==
  [i \in 1..Len(tail) |->
     IF places = 1 THEN Rounded1(pick(MapGet(rows, tail[i]), keys))
     ELSE Rounded2(pick(MapGet(rows, tail[i]), keys))]

\* The four values of the strict join at time tag t, lines 429-432.
JoinValues(plasma, mag, t) ==
  [bz |-> pick(MapGet(mag, t), BzKeys),
   bt |-> pick(MapGet(mag, t), BtKeys),
   speed |-> pick(MapGet(plasma, t), SpeedKeys),
   density |-> pick(MapGet(plasma, t), DensityKeys)]

\* Mutant: a time tag present in one feed passes when that feed is complete.
Joined_EitherFeed(plasma, mag, t) ==
  LET v == JoinValues(plasma, mag, t)
  IN  \/ (MapGet(mag, t) # Null /\ v.bz # Null /\ v.bt # Null)
      \/ (MapGet(plasma, t) # Null /\ v.speed # Null /\ v.density # Null)

\* The test of lines 428 and 433.
Joined(plasma, mag, t) ==
  LET v == JoinValues(plasma, mag, t)
  IN  /\ MapGet(plasma, t) # Null /\ MapGet(mag, t) # Null
      /\ v.bz # Null /\ v.bt # Null /\ v.speed # Null /\ v.density # Null

\* The loop of lines 424-440: the index in times of the aligned time tag, 0
\* when no time tag passes.
RECURSIVE AlignedIndex(_, _, _, _)
AlignedIndex(plasma, mag, times, i) ==
  IF i < 1 THEN 0
  ELSE IF Joined(plasma, mag, times[i]) THEN i
  ELSE AlignedIndex(plasma, mag, times, i - 1)

RECURSIVE latestNonNullFrom(_, _, _)
latestNonNullFrom(rows, key, i) ==
  IF i < 1 THEN Null
  ELSE IF toNumber(Get(rows[i], key)) # Null THEN toNumber(Get(rows[i], key))
  ELSE latestNonNullFrom(rows, key, i - 1)

latestNonNull(rows, key) == latestNonNullFrom(rows, key, Len(rows))

RECURSIVE latestFiniteFrom(_, _)
latestFiniteFrom(arr, i) ==
  IF i < 1 THEN Null
  ELSE IF toNumber(arr[i]) # Null THEN toNumber(arr[i])
  ELSE latestFiniteFrom(arr, i - 1)

latestFinite(arr) == latestFiniteFrom(arr, Len(arr))

\* a ?? b
Nullish(a, b) == IF a \in {Null, Undef} THEN b ELSE a

\* The fallback of lines 443-449.
FallbackNow(plasma, mag, speed, density) ==
  [bz |-> round1(latestNonNull(mag, Key("bz_gsm"))),
   bt |-> round1(latestNonNull(mag, Key("bt"))),
   speed |-> round1(Nullish(latestFinite(speed),
                            latestNonNull(plasma, Key("speed")))),
   density |-> round2(Nullish(latestFinite(density),
                              latestNonNull(plasma, Key("density"))))]

\* a || b || ... over the metadata fields of line 457.
RECURSIVE FirstTruthy(_, _, _)
FirstTruthy(o, keys, i) ==
  IF i > Len(keys) THEN Null
  ELSE IF Truthy(Get(o, keys[i])) THEN Get(o, keys[i])
  ELSE FirstTruthy(o, keys, i + 1)

SatKeys == <<Key("satellite"), Key("sat"), Key("sc"), Key("observatory"),
             Key("source")>>

\* Lines 453-465.  A metadata string is Str(<<>>, name).
SatLabel(mag, alignedT) ==
  LET mNow == IF alignedT = Null THEN Null ELSE MapGet(mag, alignedT)
      satRaw == IF mNow = Null THEN Null ELSE FirstTruthy(mNow, SatKeys, 1)
  IN  IF satRaw = Null \/ satRaw.t # "str" THEN "DSCOVR/ACE (RTSW)"
      ELSE IF satRaw.rest \in {"ACE", "ace"} THEN "ACE (RTSW)"
      ELSE IF satRaw.rest \in {"DSCOVR", "dscovr"} THEN "DSCOVR (RTSW)"
      ELSE "other (RTSW)"

\* The payload of lines 467-478, from the two response bodies.
LiveSolarwind(pJson, mJson, off, zone, now) ==
  LET plasma == parseSwpc(pJson)
      mag == parseSwpc(mJson)
      times == UnionTimes(plasma, mag, zone)
      tail == TailOf(times)
      timesOut == [i \in 1..Len(tail) |-> Shifted(tail[i], off, zone)]
      speed == SeriesOf(plasma, tail, SpeedKeys, 1)
      density == SeriesOf(plasma, tail, DensityKeys, 2)
      bzArr == SeriesOf(mag, tail, BzKeys, 1)
      btArr == SeriesOf(mag, tail, BtKeys, 1)
      ai == AlignedIndex(plasma, mag, times, Len(times))
      v == IF ai = 0 THEN Null ELSE JoinValues(plasma, mag, times[ai])
  IN  [t |-> "live",
       updatedAt |-> IF ai # 0 THEN Shifted(times[ai], off, zone)
                     ELSE IF Len(timesOut) > 0 THEN timesOut[Len(timesOut)]
                     ELSE ToISOString(now),
       now |-> IF ai # 0
                 THEN [bz |-> round1(v.bz), bt |-> round1(v.bt),
                       speed |-> round1(v.speed), density |-> round2(v.density)]
                 ELSE FallbackNow(plasma, mag, speed, density),
       labels |-> [i \in 1..Len(tail) |-> fmtHM(timesOut[i], zone)],
       times |-> timesOut,
       speed |-> speed,
       density |-> density,
       bz |-> bzArr,
       bt |-> btArr,
       source |-> [satellite |-> SatLabel(mag, IF ai = 0 THEN Null ELSE times[ai]),
                   provider |-> "NOAA SWPC"]]

\* A value drawn with Math.random(), or computed from such values.
Random == [t |-> "random"]

\* mockSolarwindData, lines 178-216: sixty random points ending now; no bz or
\* bt series and no source.
mockSolarwindData(now) ==
  [t |-> "mock",
   updatedAt |-> ToISOString(now),
   now |-> [bz |-> Random, bt |-> Random, speed |-> Random,
            density |-> Random],
   labels |-> Random, times |-> Random, speed |-> Random, density |-> Random]

-----------------------------------------------------------------------------
(* Idle values: what a machine's variables hold while another one runs *)

Idle == [t |-> "idle"]

TimeIdle == tIn = Idle /\ tOut = Idle
PickIdle == pkJson = <<>> /\ pkOut = Idle
SwIdle   == /\ plasmaJson = <<>> /\ magJson = <<>> /\ magMarked = FALSE
            /\ offsetMin = 0 /\ swOut = Idle
SrvIdle  == /\ ep = "none" /\ clock = 0 /\ entry = Idle /\ calls = <<>>
            /\ resp = Idle
PairIdle == swRes = Idle
KpIdle   == kpJson = <<>> /\ kpOut = Idle
HttpIdle == req = Idle /\ tile = Idle /\ reply = Idle
WarmIdle == wCache = Idle /\ wRun = Idle /\ wDue = 0 /\ wLog = Idle
XmlIdle  == xmlIn = <<>> /\ xmlOut = Idle
FeedIdle == feedTbl = Idle /\ feedOut = Idle
DashIdle == /\ stateData = Idle /\ charts = Idle /\ tzSel = Idle
            /\ inflight = Idle
RestIdle == /\ PairIdle /\ KpIdle /\ HttpIdle /\ WarmIdle /\ XmlIdle /\ FeedIdle
            /\ DashIdle

-----------------------------------------------------------------------------
(* SpecTime: the timestamp conversions applied to one string *)

InitTime ==
  /\ tz \in TimeZones
  /\ tIn \in TimeStrings
  /\ tOut = Idle
  /\ PickIdle /\ SwIdle /\ SrvIdle /\ RestIdle

\* normalizeUtcIso(tIn), and shiftIso of its result by one hour.
Normalize ==
  /\ tOut = Idle
  /\ tOut' = [t |-> "out",
              ms |-> parseToUTC(tIn, tz),
              iso |-> normalizeUtcIso(tIn, tz),
              shifted |-> shiftIso(normalizeUtcIso(tIn, tz), 1, tz)]
  /\ UNCHANGED <<restVars, tz, tIn, pickVars, swVars, srvVars>>

\* The next string arrives.
NextString ==
  /\ tOut # Idle
  /\ tIn' \in TimeStrings
  /\ tOut' = Idle
  /\ UNCHANGED <<restVars, tz, pickVars, swVars, srvVars>>

NextTime == Normalize \/ NextString

SpecTime == InitTime /\ [][NextTime]_vars

\* C7: a timestamp string without a time-zone marker normalizes to the UTC
\* instant of its wall-clock reading, whatever the server's time zone ("... 12:00:00"
\* gives "...T12:00:00.000Z"); a string with a marker keeps the instant the marker
\* denotes.
C7_UnmarkedIsUtc ==
  tOut # Idle =>
    /\ tIn.mark = "" =>
          /\ tOut.ms = tIn.wall
          /\ tOut.iso = [wall |-> tIn.wall, sep |-> "T", mark |-> "Z"]
    /\ tIn.mark # "" =>
          /\ tOut.ms = tIn.wall - MarkOffset(tIn.mark)
          /\ tOut.iso = [wall |-> tIn.wall - MarkOffset(tIn.mark),
                         sep |-> "T", mark |-> "Z"]

\* An unmarked, space-separated string was normalized on a server east of UTC.
C7_Witness ==
  /\ tOut # Idle /\ tz = 2
  /\ tIn = [wall |-> MaxWall, sep |-> " ", mark |-> ""]
  /\ tOut.iso = [wall |-> MaxWall, sep |-> "T", mark |-> "Z"]

-----------------------------------------------------------------------------
(* SpecPick: one upstream row, parsed and picked from *)

\* Spellings of a field name: as in the code, with upper-case letters, or with
\* its underscore dropped or displaced.
Spellings(base) ==
  {Name(base, FALSE, FALSE), Name(base, TRUE, FALSE), Name(base, FALSE, TRUE)}
PickNames == UNION {Spellings(b) : b \in {"speed", "flow_speed", "density"}}
PickValues == {Null, EmptyStr, Str(<<>>, "n/a"), Str(<<612340>>, ""), Num(-450450)}
KeyLists == [speed |-> SpeedKeys, density |-> DensityKeys]

InitPick ==
  /\ tz = 0
  /\ pkJson = <<>>
  /\ pkOut = Idle
  /\ TimeIdle /\ SwIdle /\ SrvIdle /\ RestIdle

\* The upstream row carries one more field.
AddField ==
  /\ Len(pkJson) < MaxFields
  /\ \E k \in PickNames, v \in PickValues :
       /\ \A i \in 1..Len(pkJson) : pkJson[i].k # k
       /\ pkJson' = Append(pkJson, [k |-> k, v |-> v])
  /\ pkOut' = Idle
  /\ UNCHANGED <<restVars, tz, timeVars, swVars, srvVars>>

\* pick on the row as received, on the row as parsed, and on a missing row.
ApplyPick ==
  /\ pkOut = Idle
  /\ \E q \in DOMAIN KeyLists :
       pkOut' = [t |-> "out", q |-> q,
                 raw |-> pick(RawRow(pkJson), KeyLists[q]),
                 parsed |-> pick(parseRow(pkJson), KeyLists[q]),
                 missing |-> pick(Null, KeyLists[q])]
  /\ UNCHANGED <<restVars, tz, pkJson, timeVars, swVars, srvVars>>

NextPick == AddField \/ ApplyPick

SpecPick == InitPick /\ [][NextPick]_vars

\* The positions of keys whose value in row is present and numeric.
GoodKeys(row, keys) ==
  {i \in 1..Len(keys) :
     /\ Get(row, keys[i]) \notin {Undef, Null, EmptyStr}
     /\ toNumber(Get(row, keys[i])) # Null}

FirstGoodValue(row, keys) ==
  IF GoodKeys(row, keys) = {} THEN Null
  ELSE toNumber(Get(row, keys[CHOOSE i \in GoodKeys(row, keys) :
                                  \A j \in GoodKeys(row, keys) : i <= j]))

\* C8: pick returns the number held under the first key, in priority order,
\* whose value is present and converts to a finite number, skipping earlier keys
\* whose value is not numeric; it returns null when there is no such key or no
\* row.
C8_PickFirstFinite ==
  pkOut # Idle =>
    /\ pkOut.raw = FirstGoodValue(RawRow(pkJson), KeyLists[pkOut.q])
    /\ pkOut.parsed = FirstGoodValue(parseRow(pkJson), KeyLists[pkOut.q])
    /\ pkOut.missing = Null

\* A non-numeric string under 'speed' was skipped and 'flow_speed' decided.
C8_Witness ==
  /\ pkOut # Idle /\ pkOut.q = "speed"
  /\ pkJson = << [k |-> Key("flow_speed"), v |-> Str(<<612340>>, "")],
                 [k |-> Key("speed"), v |-> Str(<<>>, "n/a")] >>
  /\ pkOut.raw = Num(612340)

\* The row with every field name replaced by the spelling used in the code.
RECURSIVE Respell(_)
Respell(es) ==
  IF es = <<>> THEN <<>>
  ELSE <<[k |-> Key(Head(es).k.base), v |-> Head(es).v]>> \o Respell(Tail(es))

\* No two fields of the row are spellings of one name.
OneSpellingEach(es) ==
  \A i, j \in 1..Len(es) : es[i].k.base = es[j].k.base => i = j

\* C9 as stated: whichever spelling of a candidate key the upstream row uses
\* (letter case or underscore placement), parse-then-pick resolves the value it
\* resolves for the spelling in the code.
C9_AnySpelling ==
  (pkOut # Idle /\ OneSpellingEach(pkJson)) =>
    pkOut.parsed = pick(parseRow(Respell(pkJson)), KeyLists[pkOut.q])

\* C9 amended: the same, for rows whose field names differ from the candidate
\* keys by letter case only.
C9_AnyLetterCase ==
  (/\ pkOut # Idle /\ OneSpellingEach(pkJson)
   /\ \A i \in 1..Len(pkJson) : ~pkJson[i].k.us) =>
    pkOut.parsed = pick(parseRow(Respell(pkJson)), KeyLists[pkOut.q])

\* A value under an upper-case spelling of 'flow_speed' was resolved.
C9_Witness ==
  /\ pkOut # Idle /\ pkOut.q = "speed"
  /\ pkJson = << [k |-> Name("flow_speed", TRUE, FALSE), v |-> Num(-450450)] >>
  /\ pkOut.parsed = Num(-450450)
  /\ pkOut.raw = Null

-----------------------------------------------------------------------------
(* SpecSolarwind: the two upstream feeds and the payload built from them *)

FeedWalls == {0, 1, 2}      \* the readings feed rows are stamped with
SwTimeZones == {0, 2}

\* The time tag of a feed row: both feeds separate date and time by a space, the
\* magnetic feed may end its time tags with Z.
FeedTime(w, marked) ==
  Time([wall |-> w, sep |-> " ", mark |-> IF marked THEN "Z" ELSE ""])

Entry(k, v) == [k |-> k, v |-> v]

\* Rows the plasma feed may publish for reading w.
PlasmaRows(w) ==
  { << Entry(Key("time_tag"), FeedTime(w, FALSE)),
       Entry(Key("speed"), Num(400345 + 1000 * w)),
       Entry(Key("density"), Num(5057 + 100 * w)) >>,
    << Entry(Key("time_tag"), FeedTime(w, FALSE)),
       Entry(Key("speed"), Num(500678 + 1000 * w)),
       Entry(Key("density"), Null) >> }

\* Rows the magnetic feed may publish for reading w: complete, or bz alone
\* under the key 'bz'.
MagRows(w, marked) ==
  { << Entry(Key("time_tag"), FeedTime(w, marked)),
       Entry(Key("bz_gsm"), Num(-3070 - 100 * w)),
       Entry(Key("bt"), Num(7051 + 100 * w)) >>,
    << Entry(Key("time_tag"), FeedTime(w, marked)),
       Entry(Key("bz"), Num(2049 + 100 * w)),
       Entry(Key("bt"), EmptyStr) >> }

InitSolarwind ==
  /\ tz \in SwTimeZones
  /\ magMarked \in BOOLEAN
  /\ offsetMin \in {0, 1}
  /\ plasmaJson = <<>> /\ magJson = <<>>
  /\ swOut = Idle
  /\ TimeIdle /\ PickIdle /\ SrvIdle /\ RestIdle

\* The plasma feed gains a row (rows are not published in time order).
PublishPlasma ==
  /\ Len(plasmaJson) + Len(magJson) < MaxRows
  /\ \E w \in FeedWalls : \E row \in PlasmaRows(w) :
       plasmaJson' = Append(plasmaJson, row)
  /\ swOut' = Idle
  /\ UNCHANGED <<restVars, tz, magJson, magMarked, offsetMin, timeVars, pickVars, srvVars>>

PublishMag ==
  /\ Len(plasmaJson) + Len(magJson) < MaxRows
  /\ \E w \in FeedWalls : \E row \in MagRows(w, magMarked) :
       magJson' = Append(magJson, row)
  /\ swOut' = Idle
  /\ UNCHANGED <<restVars, tz, plasmaJson, magMarked, offsetMin, timeVars, pickVars, srvVars>>

\* getSolarwind on a cache miss with both requests answered 200 and both
\* bodies parsed: lines 382-480.  swOut is the payload returned and cached.
FetchLive ==
  /\ swOut = Idle
  /\ swOut' = LiveSolarwind(plasmaJson, magJson, offsetMin, tz, clock)
  /\ UNCHANGED <<restVars, tz, plasmaJson, magJson, magMarked, offsetMin, timeVars,
                 pickVars, srvVars>>

\* getSolarwind on a cache miss when a request fails, is answered with a
\* non-success status or has an unparseable body: lines 387, 481-486.
FetchFallback ==
  /\ swOut = Idle
  /\ \E plasmaOk, magOk \in BOOLEAN :
       /\ ~(plasmaOk /\ magOk)
       /\ swOut' = mockSolarwindData(clock)
  /\ UNCHANGED <<restVars, tz, plasmaJson, magJson, magMarked, offsetMin, timeVars,
                 pickVars, srvVars>>

NextSolarwind == PublishPlasma \/ PublishMag \/ FetchLive \/ FetchFallback

SpecSolarwind == InitSolarwind /\ [][NextSolarwind]_vars

\* The feeds as parsed, and the time tags they carry.
PlasmaNow == parseSwpc(plasmaJson)
MagNow == parseSwpc(magJson)
TagsOf(rows) == {TimeTag(rows[i]) : i \in 1..Len(rows)}

\* The row a feed holds for time tag t: the last one listed, Null when none.
RowAt(rows, t) ==
  IF t \notin TagsOf(rows) THEN Null
  ELSE rows[CHOOSE i \in 1..Len(rows) :
              /\ TimeTag(rows[i]) = t
              /\ \A j \in 1..Len(rows) : TimeTag(rows[j]) = t => j <= i]

\* The instant a time tag denotes when read as UTC, and as reported.
Utc(t) == IF t.ts.mark = "" THEN t.ts.wall ELSE t.ts.wall - MarkOffset(t.ts.mark)
Reported(t) == [wall |-> Utc(t) + offsetMin, sep |-> "T", mark |-> "Z"]

\* Time tag t has a row in both feeds p and m and all four quantities are
\* finite.
Complete(p, m, t) ==
  LET pr == RowAt(p, t)
      mr == RowAt(m, t)
  IN  /\ pr # Null /\ mr # Null
      /\ FirstGoodValue(mr, BzKeys) # Null
      /\ FirstGoodValue(mr, BtKeys) # Null
      /\ FirstGoodValue(pr, SpeedKeys) # Null
      /\ FirstGoodValue(pr, DensityKeys) # Null
CompleteTags(p, m) == {t \in TagsOf(p) \cup TagsOf(m) : Complete(p, m, t)}

\* The now values the rows of time tag t give.
NowAt(p, m, t) ==
  [bz |-> round1(FirstGoodValue(RowAt(m, t), BzKeys)),
   bt |-> round1(FirstGoodValue(RowAt(m, t), BtKeys)),
   speed |-> round1(FirstGoodValue(RowAt(p, t), SpeedKeys)),
   density |-> round2(FirstGoodValue(RowAt(p, t), DensityKeys))]

\* C1: when some time tag of the union has a row in both feeds (a feed's row for
\* a time tag being the last one it lists) with bz, bt, speed and density all
\* finite, updatedAt and now come from the most recent such time tag, also when
\* it lies outside the chart window and later time tags are incomplete.
C1_StrictJoin ==
  swOut.t = "live" =>
    LET p == PlasmaNow
        m == MagNow
        done == CompleteTags(p, m)
    IN  done # {} =>
          \E t \in done :
            /\ \A u \in done : Utc(u) <= Utc(t)
            /\ swOut.updatedAt = Reported(t)
            /\ swOut.now = NowAt(p, m, t)

\* The only complete time tag is older than a whole window of later ones.
C1_Witness ==
  /\ swOut.t = "live"
  /\ LET p == PlasmaNow
         m == MagNow
     IN  \E t \in CompleteTags(p, m) :
           /\ swOut.updatedAt = Reported(t)
           /\ Cardinality({u \in TagsOf(p) \cup TagsOf(m) : Utc(u) > Utc(t)})
                >= ChartWindow
           /\ \A i \in 1..Len(swOut.times) : swOut.times[i] # Reported(t)

\* The last finite entry of a chart series, Null when it has none.
LastFinite(arr) ==
  LET fin == {i \in 1..Len(arr) : arr[i] # Null}
  IN  IF fin = {} THEN Null ELSE arr[CHOOSE i \in fin : \A j \in fin : j <= i]

\* No time tag satisfies the strict join.
NoneComplete == CompleteTags(PlasmaNow, MagNow) = {}

\* C2: when no time tag satisfies the strict join, each now value is the last
\* finite entry of its own chart series of the same response, and null only
\* when that series has no finite entry.
C2_FallbackFromSeries ==
  (swOut.t = "live" /\ NoneComplete) =>
    /\ swOut.now.bz = LastFinite(swOut.bz)
    /\ swOut.now.bt = LastFinite(swOut.bt)
    /\ swOut.now.speed = LastFinite(swOut.speed)
    /\ swOut.now.density = LastFinite(swOut.density)

\* What the code does hold on the fallback path for the two plasma quantities
\* whenever their series has a finite entry.
C2_PlasmaFromSeries ==
  (swOut.t = "live" /\ NoneComplete) =>
    /\ LastFinite(swOut.speed) # Null => swOut.now.speed = LastFinite(swOut.speed)
    /\ LastFinite(swOut.density) # Null =>
          swOut.now.density = LastFinite(swOut.density)

\* The time tags of the set tags with fewer than ChartWindow strictly later
\* ones.
Recent(tags) ==
  {t \in tags : Cardinality({u \in tags : Utc(u) > Utc(t)}) < ChartWindow}

\* C10: times holds at most the window's number of entries, as many as the union
\* allows, all of them among the most recent time tags of the union read as UTC,
\* in ascending order of instant.
C10_WindowAscending ==
  swOut.t = "live" =>
    LET tags == TagsOf(PlasmaNow) \cup TagsOf(MagNow)
        recent == Recent(tags)
    IN  /\ Len(swOut.times) <= ChartWindow
        /\ Len(swOut.times) = IF Cardinality(tags) < ChartWindow
                                 THEN Cardinality(tags) ELSE ChartWindow
        /\ \A i \in 1..Len(swOut.times) :
             \E t \in recent : swOut.times[i] = Reported(t)
        /\ \A i, j \in 1..Len(swOut.times) :
             i < j => swOut.times[i].wall <= swOut.times[j].wall

\* The same when no feed marks its time tags or the server runs on UTC.
C10_UniformFormats ==
  (swOut.t = "live" /\ (~magMarked \/ tz = 0)) => C10_WindowAscending

-----------------------------------------------------------------------------
(* Spec: the read-through cache and the endpoints, one cache key at a time *)

\* The JSON endpoints; the five of CachedEndpoints answer from a get* function
\* that fronts its upstream with a cache entry.
CachedEndpoints == {"solarwind", "kp", "rx", "weather", "fmiBx"}
Endpoints == CachedEndpoints \cup {"health", "textdata", "solarlunar"}

\* The calls that may be suspended at an await at once: a request and another
\* request or the warming task.
Slots == {1, 2}
Absent == [t |-> "absent"]       \* cache.fmiBx[key] of a key never stored
Outcomes == {"ok", "status", "malformed", "transport"}

\* The cache as constructed, lines 25-32.
InitialEntry(e) ==
  IF e \in {"solarwind", "kp", "rx"} THEN [data |-> Null, ts |-> 0] ELSE Absent

TtlOf(e) == IF e = "weather" THEN WEATHER_TTL_MS ELSE TTL_MS

\* Mutant: the cache is never consulted.
Fresh_Never(e, ent, now) == FALSE

\* The cache test at the head of each get* function.
Fresh(e, ent, now) ==
  /\ ent # Absent
  /\ e \in {"solarwind", "kp", "rx"} => ent.data # Null
  /\ now - ent.ts < TtlOf(e)

\* Upstream HTTP requests one miss issues: the two feeds of getSolarwind, one
\* request for Kp, weather and FMI, none for getRx (mockRxData).
Requests(e) == CASE e = "solarwind" -> 2 [] e = "rx" -> 0 [] OTHER -> 1

\* Mutant: the entry is stamped when the result is stored.
Stored_AtCompletion(data, started, done) == [data |-> data, ts |-> done]

\* cache.x = { data, ts: now }: now was read when the call began.
Stored(data, started, done) == [data |-> data, ts |-> started]

\* Whether a miss ends with the live payload; otherwise the catch block
\* answers with mock data.  An FMI body without elements parses to no rows,
\* which getFmiBx returns as a live payload.
IsLive(e, outcomes) ==
  \A i \in 1..Len(outcomes) :
    \/ outcomes[i] = "ok"
    \/ (e = "fmiBx" /\ outcomes[i] = "malformed")

\* Mutant: a failed fetch rethrows, and the handler answers 500 without a
\* payload and without storing.
PayloadOf_Rethrow(e, outcomes, slot, started) ==
  IF \A i \in 1..Len(outcomes) : outcomes[i] = "ok"
    THEN [kind |-> "live", by |-> slot, at |-> started]
    ELSE Null

\* Mutant: a call joins the fetch in flight and is handed the first caller's
\* result.
PayloadOf_FirstCaller(e, outcomes, slot, started) ==
  [kind |-> IF IsLive(e, outcomes) THEN "live" ELSE "mock",
   by |-> 1, at |-> started]

\* The payload a miss returns.
PayloadOf(e, outcomes, slot, started) ==
  [kind |-> IF IsLive(e, outcomes) THEN "live" ELSE "mock",
   by |-> slot, at |-> started]

InitServe ==
  /\ tz = 0
  /\ ep \in Endpoints
  /\ clock = 0
  /\ entry = InitialEntry(ep)
  /\ calls = [s \in Slots |-> Idle]
  /\ resp = Idle
  /\ TimeIdle /\ PickIdle /\ SwIdle /\ RestIdle

Tick ==
  /\ clock < MaxClock
  /\ clock' = clock + 1
  /\ UNCHANGED <<restVars, tz, ep, entry, calls, resp, timeVars, pickVars, swVars>>

\* A request finds the entry fresh: the get* function returns entry.data and
\* the handler answers with it.
Hit ==
  /\ ep \in CachedEndpoints
  /\ Fresh(ep, entry, clock)
  /\ resp' = [hit |-> TRUE, status |-> 200, data |-> entry.data, reqs |-> 0,
              now |-> clock, seen |-> entry, after |-> entry, slot |-> 0,
              before |-> entry]
  /\ UNCHANGED <<restVars, tz, ep, clock, entry, calls, timeVars, pickVars, swVars>>

\* A request (or the warming task) finds the entry absent or expired and
\* issues its upstream requests: the call is suspended at its await.
MissBegin(s) ==
  /\ ep \in CachedEndpoints \ {"rx"}
  /\ ~Fresh(ep, entry, clock)
  /\ calls[s] = Idle
  /\ calls' = [calls EXCEPT ![s] = [now |-> clock, seen |-> entry,
                                     reqs |-> Requests(ep)]]
  /\ UNCHANGED <<restVars, tz, ep, clock, entry, resp, timeVars, pickVars, swVars>>

\* The upstream answers (or fails): the call builds its payload, stores it and
\* returns it, and the handler answers 200 with it.
MissEnd(s) ==
  /\ ep \in CachedEndpoints \ {"rx"}
  /\ calls[s] # Idle
  /\ \E outcomes \in [1..Requests(ep) -> Outcomes] :
       LET data == PayloadOf(ep, outcomes, s, calls[s].now)
       IN  IF data = Null
             THEN /\ entry' = entry
                  /\ resp' = [hit |-> FALSE, status |-> 500, data |-> Null,
                              reqs |-> calls[s].reqs, now |-> calls[s].now,
                              seen |-> calls[s].seen, after |-> entry,
                              slot |-> s, before |-> entry]
             ELSE /\ entry' = Stored(data, calls[s].now, clock)
                  /\ resp' = [hit |-> FALSE, status |-> 200, data |-> data,
                              reqs |-> calls[s].reqs, now |-> calls[s].now,
                              seen |-> calls[s].seen,
                              after |-> Stored(data, calls[s].now, clock),
                              slot |-> s, before |-> entry]
  /\ calls' = [calls EXCEPT ![s] = Idle]
  /\ UNCHANGED <<restVars, tz, ep, clock, timeVars, pickVars, swVars>>

\* getRx on a miss: mock data, stored and returned without any await.
RxMiss ==
  /\ ep = "rx"
  /\ ~Fresh(ep, entry, clock)
  /\ LET data == [kind |-> "mock", by |-> 0, at |-> clock]
     IN  /\ entry' = Stored(data, clock, clock)
         /\ resp' = [hit |-> FALSE, status |-> 200, data |-> data,
                     reqs |-> Requests(ep), now |-> clock, seen |-> entry,
                     after |-> Stored(data, clock, clock), slot |-> 0,
                     before |-> entry]
  /\ UNCHANGED <<restVars, tz, ep, clock, calls, timeVars, pickVars, swVars>>

\* GET /api/fmi/textdata with an accepted station: the upstream is fetched
\* on every request.
TextBegin(s) ==
  /\ ep = "textdata"
  /\ calls[s] = Idle
  /\ calls' = [calls EXCEPT ![s] = [now |-> clock, seen |-> entry, reqs |-> 1]]
  /\ UNCHANGED <<restVars, tz, ep, clock, entry, resp, timeVars, pickVars, swVars>>

\* Lines 800-823: a failed or non-success fetch is answered 500; lines of the
\* body that do not match are skipped, so any body gives 200.
TextEnd(s) ==
  /\ ep = "textdata"
  /\ calls[s] # Idle
  /\ \E outcome \in Outcomes :
       resp' = IF outcome \in {"ok", "malformed"}
                 THEN [hit |-> FALSE, status |-> 200,
                       data |-> [kind |-> "live", by |-> s, at |-> calls[s].now],
                       reqs |-> 1, now |-> calls[s].now, seen |-> entry,
                       after |-> entry, slot |-> s, before |-> entry]
                 ELSE [hit |-> FALSE, status |-> 500, data |-> Null,
                       reqs |-> 1, now |-> calls[s].now, seen |-> entry,
                       after |-> entry, slot |-> s, before |-> entry]
  /\ calls' = [calls EXCEPT ![s] = Idle]
  /\ UNCHANGED <<restVars, tz, ep, clock, entry, timeVars, pickVars, swVars>>

\* GET /api/health, and GET /api/solarlunar with a valid request: computed
\* locally, no upstream.
Local ==
  /\ ep \in {"health", "solarlunar"}
  /\ resp' = [hit |-> FALSE, status |-> 200,
              data |-> [kind |-> "live", by |-> 0, at |-> clock],
              reqs |-> 0, now |-> clock, seen |-> entry, after |-> entry,
              slot |-> 0, before |-> entry]
  /\ UNCHANGED <<restVars, tz, ep, clock, entry, calls, timeVars, pickVars, swVars>>

Next ==
  \/ Tick
  \/ Hit
  \/ \E s \in Slots : MissBegin(s)
  \/ \E s \in Slots : MissEnd(s)
  \/ RxMiss
  \/ \E s \in Slots : TextBegin(s)
  \/ \E s \in Slots : TextEnd(s)
  \/ Local

Spec == InitServe /\ [][Next]_vars

\* The entry the last completed call saw when it began was there, held data
\* and was younger than the key's TTL.
FreshAtCall ==
  /\ resp.seen # Absent
  /\ resp.seen.data # Null
  /\ resp.now - resp.seen.ts < (IF ep = "weather" THEN WEATHER_TTL_MS ELSE TTL_MS)

Completed == resp # Idle /\ ep \in CachedEndpoints

\* C3: a call made while the key's entry exists and is younger than the TTL
\* returns the stored payload, issues no upstream request and leaves the entry
\* as it was.
C3_FreshServedFromCache ==
  (Completed /\ FreshAtCall) =>
    /\ resp.hit
    /\ resp.data = resp.seen.data
    /\ resp.reqs = 0
    /\ resp.after = resp.seen

\* A weather entry older than the short TTL but younger than its own was served.
C3_Witness ==
  /\ Completed /\ resp.hit /\ ep = "weather"
  /\ resp.now - resp.seen.ts >= TTL_MS
  /\ resp.data = entry.data

\* C4 as stated: a call made while the entry is absent or expired issues
\* exactly one upstream request, stores its result and refreshes the timestamp.
C4_OneRequest ==
  (Completed /\ ~FreshAtCall) =>
    /\ ~resp.hit
    /\ resp.reqs = 1
    /\ resp.after.data = resp.data
    /\ resp.after.ts = resp.now

\* C4 amended: such a call issues one round of upstream requests (two for solar
\* wind, one for Kp, weather and FMI, none for rx), stores its result and stamps
\* the entry with the time at which the call began, which is at least a TTL
\* later than the stamp of the entry it found expired.
C4_OneFetchRound ==
  (Completed /\ ~FreshAtCall) =>
    /\ ~resp.hit
    /\ resp.reqs = (CASE ep = "solarwind" -> 2 [] ep = "rx" -> 0 [] OTHER -> 1)
    /\ resp.after = [data |-> resp.data, ts |-> resp.now]
    /\ (resp.seen # Absent /\ resp.seen.data # Null) =>
          resp.after.ts >= resp.seen.ts +
                           (IF ep = "weather" THEN WEATHER_TTL_MS ELSE TTL_MS)

\* An expired Kp entry was replaced after the upstream took a while to answer.
C4_Witness ==
  /\ Completed /\ ~resp.hit /\ ep = "kp"
  /\ resp.seen.data # Null
  /\ clock > resp.now
  /\ entry = resp.after

\* C5: every completed call of a cached resource returns a payload, whatever the
\* upstream outcome, and a miss leaves that payload in the entry; a key fetched
\* once holds data from then on; a fallback payload found fresh is served from
\* the cache without a new request.
C5_AlwaysAPayload ==
  Completed =>
    /\ resp.status = 200
    /\ resp.data # Null
    /\ ~resp.hit => resp.after.data = resp.data
    /\ entry # Absent /\ entry.data # Null
    /\ (FreshAtCall /\ resp.seen.data.kind = "mock") =>
         (resp.hit /\ resp.reqs = 0 /\ resp.data = resp.seen.data)

\* A fallback solar-wind payload was served from the cache.
C5_Witness ==
  /\ Completed /\ ep = "solarwind"
  /\ resp.hit /\ resp.data.kind = "mock"

\* C6: no JSON endpoint other than the two proxies answers a valid request with
\* an error status; each answers with a payload even when its upstream fails.
C6_NoErrorStatus ==
  resp # Idle => (resp.status = 200 /\ resp.data # Null)

\* The same for the endpoints other than the text dump.
C6_ExceptTextData ==
  (resp # Idle /\ ep # "textdata") => (resp.status = 200 /\ resp.data # Null)

-----------------------------------------------------------------------------
(* SpecHttp: how the handlers read their query parameters, and the two     *)
(* proxies.  One request is repeated over time; tile is the radar cache    *)
(* entry of its key.  A query parameter is Undef when absent, else a       *)
(* string, or for a comma-separated list the sequence of its pieces.       *)

MaxTileClock == 3    \* Date.now() ranges over 0..MaxTileClock in SpecHttp
MaxLayers == 2       \* pieces of the layers parameter

\* Line 632, in metres (the bound is 20037508.342789244 m; a bbox number is
\* counted in thousandths of a kilometre).
WEB_MERCATOR_MAX == 20037508

FMI_RADAR_LAYERS == {"Radar:radar_ppi_fikau_dbzv", "Radar:suomi_rr_eureffin"}

\* A comma-separated parameter: the pieces between its commas.
List(pieces) == [t |-> "list", p |-> pieces]

\* One piece of the layers parameter: the identifier it spells, and whether
\* white space surrounds it.
Layer(id, pad) == [id |-> id, pad |-> pad]
LayerPieces ==
  {Layer(id, FALSE) : id \in FMI_RADAR_LAYERS \cup {"Radar:other", ""}}
    \cup {Layer("Radar:suomi_rr_eureffin", TRUE), Layer("", TRUE)}
LayerParams ==
  {Undef} \cup {List(l) : l \in UNION {[1..n -> LayerPieces] : n \in 1..MaxLayers}}

\* s.trim()
Trim(s) == [s EXCEPT !.pad = FALSE]

\* String(q.layers || 'Radar:radar_ppi_fikau_dbzv').split(','): an absent or
\* empty parameter stands for the default layer.
RawLayers(q) ==
  IF q = Undef \/ q = List(<<Layer("", FALSE)>>)
    THEN <<Layer("Radar:radar_ppi_fikau_dbzv", FALSE)>>
    ELSE q.p

\* The filter of line 621 dropped: every non-empty piece passes.
SanitizedLayers_AnyLayer(q) ==
  SelectSeq([i \in 1..Len(RawLayers(q)) |-> Trim(RawLayers(q)[i])],
            LAMBDA s : s.id # "")

\* layers, lines 618-621
SanitizedLayers(q) ==
  SelectSeq([i \in 1..Len(RawLayers(q)) |-> Trim(RawLayers(q)[i])],
            LAMBDA s : s.id # "" /\ s.id \in FMI_RADAR_LAYERS)

\* The pieces a bbox parameter is made of: numbers inside, on and beyond the
\* bounds, a number followed by other text, and text that is no number.
BboxPieces ==
  {Str(<<n>>, "") : n \in {-WEB_MERCATOR_MAX - 1, -WEB_MERCATOR_MAX, -5000,
                           WEB_MERCATOR_MAX, WEB_MERCATOR_MAX + 1000}}
    \cup {Str(<<12000>>, "abc"), Str(<<>>, "abc"), EmptyStr}
InsidePieces == {Str(<<2500>>, ""), Str(<<WEB_MERCATOR_MAX - 1>>, "")}
BboxParams ==
  {Undef}
    \cup {List(<<a, b, c, d>>) : a \in BboxPieces, b \in BboxPieces,
                                 c \in InsidePieces, d \in InsidePieces}
    \cup {List(<<a, b, c>>) : a \in InsidePieces, b \in InsidePieces,
                              c \in InsidePieces}
    \cup {List(<<a, b, c, d, d>>) : a \in InsidePieces, b \in InsidePieces,
                                    c \in InsidePieces, d \in InsidePieces}

\* parts, lines 627-628: String(q.bbox || '') splits into one empty piece.
BboxParts(q) ==
  IF q = Undef THEN <<NaN>> ELSE [i \in 1..Len(q.p) |-> parseFloat(q.p[i])]

\* The test of line 629 passes.
BboxOk(parts) == Len(parts) = 4 /\ \A i \in 1..Len(parts) : parts[i].t = "num"

\* The clamp left out.
clamp_AsGiven(v) == v

\* clamp, line 632
clamp(v) ==
  Num(IF v.n < -WEB_MERCATOR_MAX THEN -WEB_MERCATOR_MAX
      ELSE IF v.n > WEB_MERCATOR_MAX THEN WEB_MERCATOR_MAX ELSE v.n)

\* A station parameter: the code its letters spell once in upper case, and
\* whether it is written with lower-case letters.
Code(c, lower) == [t |-> "code", code |-> c, lower |-> lower]
FMI_STATIONS == {"KEV", "MAS", "KIL", "IVA", "MUO", "PEL", "RAN", "OUJ", "MEK",
                 "HAN", "NUR", "TAR"}
\* validStations of the text-dump handler, line 795
validStations == FMI_STATIONS \cup {"SOD"}
StationParams ==
  {Undef, Code("", FALSE)}
    \cup {Code(c, l) : c \in {"KEV", "MAS", "TAR", "SOD", "ZZZ"}, l \in BOOLEAN}

\* station of GET /api/fmi/bx, lines 737-738
BxStation(q) ==
  LET qStationRaw == IF q = Undef \/ q.code = "" THEN "KEV" ELSE q.code
  IN  IF qStationRaw \in FMI_STATIONS THEN qStationRaw ELSE "KEV"

\* station of GET /api/fmi/textdata, line 794
TextStation(q) == IF q = Undef THEN "" ELSE q.code

\* parseInt(s, 10): the whole part of the numeric prefix, NaN without one.
parseInt(v) ==
  IF v.t = "str" /\ v.pre # <<>>
    THEN Num(IF v.pre[1] >= 0 THEN (v.pre[1] \div 1000) * 1000
             ELSE -(((-v.pre[1]) \div 1000) * 1000))
    ELSE NaN

MinuteParams ==
  {Undef, EmptyStr, Str(<<>>, "abc"), Str(<<12000>>, "min")}
    \cup {Str(<<n>>, "") : n \in {-3000, 0, 1000, 4000, 5000, 7900, 60000,
                                  180000, 180500, 181000, 999000}}

\* The window passed on as parsed.
BxMinutes_Unclamped(q) ==
  LET m == parseInt(IF q \in {Undef, EmptyStr} THEN Str(<<60000>>, "") ELSE q)
  IN  IF m.t # "num" THEN Num(60000) ELSE m

\* minutes of GET /api/fmi/bx, lines 739-741
BxMinutes(q) ==
  LET m == parseInt(IF q \in {Undef, EmptyStr} THEN Str(<<60000>>, "") ELSE q)
      n == IF m.t # "num" THEN 60000 ELSE m.n
  IN  Num(IF n < 5000 THEN 5000 ELSE IF n > 180000 THEN 180000 ELSE n)

\* Latitude and longitude parameters.
LatParams == {Undef, EmptyStr, Str(<<>>, "abc"), Str(<<45500>>, ""),
              Str(<<-90000>>, ""), Str(<<91000>>, "")}
LonParams == {Undef, Str(<<>>, "abc"), Str(<<24900>>, ""), Str(<<181000>>, "")}

\* la and lo of GET /api/weather, lines 721-726 (60.4728 and 26.3042 to the
\* thousandth).
WeatherCoord(q, lowest, highest, default) ==
  LET v == parseFloat(IF q = Undef THEN Str(<<default>>, "") ELSE q)
  IN  IF v.t = "num" /\ v.n >= lowest /\ v.n <= highest THEN v ELSE Num(default)

\* The src parameter of the image proxy; 'constructor' names a property every
\* object inherits.
SrcParams == {Undef, EmptyStr, Str(<<>>, "soho_sunspot"), Str(<<>>, "other"),
              Str(<<>>, "constructor")}

\* SOLAR_IMG_SOURCES[key], lines 759-760: the URL of a listed source, Undef
\* for an unknown key, and a function for the name of an inherited property.
SourceUrl(q) ==
  LET key == IF q \in {Undef, EmptyStr} THEN Str(<<>>, "soho_sunspot") ELSE q
  IN  IF key = Str(<<>>, "soho_sunspot") THEN [t |-> "url"]
      ELSE IF key = Str(<<>>, "constructor") THEN [t |-> "function"]
      ELSE Undef

\* The date parameter of GET /api/solarlunar: absent, a date, or text that is
\* no date.
DateParams == {Undef, Time([wall |-> 1, sep |-> "T", mark |-> "Z"]),
               Str(<<>>, "abc")}

\* The requests SpecHttp exercises.  A radar request varies one of its two
\* parameters while the other is absent or well-formed.
GoodBbox == List(<<Str(<<-5000>>, ""), Str(<<2500>>, ""), Str(<<2500>>, ""),
                   Str(<<WEB_MERCATOR_MAX - 1>>, "")>>)
RadarRequests ==
  {[path |-> "radar", layers |-> l, bbox |-> GoodBbox] : l \in LayerParams}
    \cup {[path |-> "radar", layers |-> Undef, bbox |-> b] : b \in BboxParams}
    \cup {[path |-> "radar", layers |-> List(<<Layer("Radar:other", FALSE)>>),
           bbox |-> Undef]}
HttpRequests ==
  RadarRequests
    \cup {[path |-> "solarimage", src |-> q] : q \in SrcParams}
    \cup {[path |-> "weather", lat |-> a, lon |-> o] :
            a \in LatParams, o \in LonParams}
    \cup {[path |-> "bx", station |-> c, minutes |-> m] :
            c \in StationParams, m \in MinuteParams}
    \cup {[path |-> "textdata", station |-> c] : c \in StationParams}
    \cup {[path |-> "solarlunar", lat |-> a, lon |-> o, date |-> d] :
            a \in LatParams, o \in LonParams, d \in DateParams}

httpOthers == <<tz, timeVars, pickVars, swVars, ep, entry, calls, resp,
                pairVars, kpVars, warmVars, xmlVars, feedVars,
                dashVars>>

\* An answer: the HTTP status, the error message of the body ("" when the
\* body is a payload) and what the handler passed on.
Reply(status, error, args) ==
  [status |-> status, error |-> error, args |-> args]

InitHttp ==
  /\ tz = 0
  /\ req \in HttpRequests
  /\ tile = Absent
  /\ reply = Idle
  /\ TimeIdle /\ PickIdle /\ SwIdle /\ SrvIdle /\ PairIdle /\ KpIdle /\ WarmIdle
  /\ XmlIdle /\ FeedIdle /\ DashIdle

TickHttp ==
  /\ clock < MaxTileClock
  /\ clock' = clock + 1
  /\ UNCHANGED <<httpOthers, httpVars>>

\* What the radar handler did with the upstream: the parameters it sent (none
\* when it sent no request), how the upstream answered, the time the handler
\* read and the cache entry it found.
RadarArgs(layers, bbox, outcome, hit) ==
  [layers |-> layers, bbox |-> bbox, up |-> IF outcome = "none" THEN 0 ELSE 1,
   outcome |-> outcome, hit |-> hit, now |-> clock, seen |-> tile]

\* The entry written before the upstream's answer is looked at.
RadarStore_Unchecked(outcome, seen, now, key) == [ts |-> now, key |-> key]

\* cache.fmiRadar[key] after the fetch: written on line 676 only.
RadarStore(outcome, seen, now, key) ==
  IF outcome = "ok" THEN [ts |-> now, key |-> key] ELSE seen

\* GET /api/fmi/radar, lines 603-685.  styles, time and tiled are held fixed.
Radar ==
  /\ req.path = "radar"
  /\ LET layers == SanitizedLayers(req.layers)
         ids == [i \in 1..Len(layers) |-> layers[i].id]
         parts == BboxParts(req.bbox)
         bbox == [i \in 1..Len(parts) |-> clamp(parts[i])]
     IN  IF layers = <<>>
           THEN /\ reply' = Reply(400, "Invalid or missing layers",
                                  RadarArgs(<<>>, <<>>, "none", FALSE))
                /\ tile' = tile
         ELSE IF ~BboxOk(parts)
           THEN /\ reply' = Reply(400, "Invalid bbox",
                                  RadarArgs(<<>>, <<>>, "none", FALSE))
                /\ tile' = tile
         ELSE IF tile # Absent /\ clock - tile.ts < TTL_MS
           THEN /\ reply' = Reply(200, "", RadarArgs(<<>>, <<>>, "none", TRUE))
                /\ tile' = tile
         ELSE \E outcome \in Outcomes :
                /\ tile' = RadarStore(outcome, tile, clock,
                                      [layers |-> ids, bbox |-> bbox])
                /\ reply' = Reply(IF outcome = "ok" THEN 200 ELSE 502,
                                  IF outcome = "ok" THEN ""
                                  ELSE IF outcome = "status" THEN "Upstream status"
                                  ELSE "Failed to fetch radar tile",
                                  RadarArgs(ids, bbox, outcome, FALSE))
  /\ UNCHANGED <<httpOthers, req, clock>>

\* GET /api/solarimage, lines 757-775.  fetch of something that is no URL
\* throws before any request is sent.
SolarImage ==
  /\ req.path = "solarimage"
  /\ LET url == SourceUrl(req.src)
     IN  IF url = Undef
           THEN reply' = Reply(400, "Invalid image source",
                               [up |-> 0, outcome |-> "none"])
         ELSE IF url.t = "function"
           THEN reply' = Reply(502, "Failed to fetch solar image",
                               [up |-> 0, outcome |-> "none"])
         ELSE \E outcome \in Outcomes :
                reply' = IF outcome = "ok"
                           THEN Reply(200, "", [up |-> 1, outcome |-> outcome])
                           ELSE Reply(502, "Failed to fetch solar image",
                                      [up |-> 1, outcome |-> outcome])
  /\ UNCHANGED <<httpOthers, req, tile, clock>>

\* GET /api/weather, lines 718-733: getWeatherTemperature(la, lo) returns a
\* payload whatever the upstream does.
Weather ==
  /\ req.path = "weather"
  /\ reply' = Reply(200, "",
                    [la |-> WeatherCoord(req.lat, -90000, 90000, 60473),
                     lo |-> WeatherCoord(req.lon, -180000, 180000, 26304)])
  /\ UNCHANGED <<httpOthers, req, tile, clock>>

\* GET /api/fmi/bx, lines 735-749: getFmiBx(station, minutes).
FmiBx ==
  /\ req.path = "bx"
  /\ reply' = Reply(200, "", [station |-> BxStation(req.station),
                              minutes |-> BxMinutes(req.minutes)])
  /\ UNCHANGED <<httpOthers, req, tile, clock>>

\* GET /api/fmi/textdata, lines 793-824.
TextData ==
  /\ req.path = "textdata"
  /\ LET station == TextStation(req.station)
     IN  IF station \notin validStations
           THEN reply' = Reply(400, "Invalid station code",
                               [station |-> station, up |-> 0])
           ELSE \E outcome \in Outcomes :
                  reply' = IF outcome \in {"ok", "malformed"}
                             THEN Reply(200, "", [station |-> station, up |-> 1])
                             ELSE Reply(500, "Failed to fetch or parse data",
                                        [station |-> station, up |-> 1])
  /\ UNCHANGED <<httpOthers, req, tile, clock>>

\* parseFloat(q) || fallback, lines 830-831
OrDefault(q, default) ==
  LET v == IF q = Undef THEN NaN ELSE parseFloat(q)
  IN  IF v.t # "num" \/ v.n = 0 THEN Num(default) ELSE v

\* GET /api/solarlunar, lines 827-921.  An invalid Date makes toISOString
\* (line 911) throw if nothing threw before; what Astronomy.Observer does with
\* a latitude or longitude out of range is the library's business.
SolarLunar ==
  /\ req.path = "solarlunar"
  /\ LET latitude == OrDefault(req.lat, 60170)
         longitude == OrDefault(req.lon, 24938)
         args == [latitude |-> latitude, longitude |-> longitude]
         failed == Reply(500, "Failed to calculate solar and lunar data", args)
     IN  IF req.date # Undef /\ req.date.t # "time" THEN reply' = failed
         ELSE IF latitude.n < -90000 \/ latitude.n > 90000
                 \/ longitude.n < -180000 \/ longitude.n > 180000
           THEN reply' \in {failed, Reply(200, "", args)}
         ELSE reply' = Reply(200, "", args)
  /\ UNCHANGED <<httpOthers, req, tile, clock>>

NextHttp ==
  \/ TickHttp
  \/ Radar
  \/ SolarImage
  \/ Weather
  \/ FmiBx
  \/ TextData
  \/ SolarLunar

SpecHttp == InitHttp /\ [][NextHttp]_vars

\* The identifiers the layers parameter of the request names, an absent or
\* empty parameter standing for the default layer, and those of them that are
\* on the allowlist.
NamedLayers ==
  IF req.layers = Undef \/ req.layers = List(<<Layer("", FALSE)>>)
    THEN <<"Radar:radar_ppi_fikau_dbzv">>
    ELSE [i \in 1..Len(req.layers.p) |-> req.layers.p[i].id]
KeptLayers == SelectSeq(NamedLayers, LAMBDA id : id \in FMI_RADAR_LAYERS)

RadarDone == reply # Idle /\ req.path = "radar"

\* C11: the radar proxy forwards only allowlisted layer identifiers: the
\* pieces of the layers parameter that are not allowlisted are dropped, and the
\* request is answered 400 for its layers, with no upstream request and the
\* cache untouched, exactly when no allowlisted piece remains.
C11_OnlyAllowlistedLayers ==
  RadarDone =>
    /\ \A i \in 1..Len(reply.args.layers) :
         reply.args.layers[i] \in FMI_RADAR_LAYERS
    /\ reply.args.up = 1 => reply.args.layers = KeptLayers
    /\ (reply.status = 400 /\ reply.error = "Invalid or missing layers")
         <=> KeptLayers = <<>>
    /\ KeptLayers = <<>> => (reply.args.up = 0 /\ tile = reply.args.seen)

\* Of two pieces only the allowlisted one went upstream.
C11_Witness ==
  /\ RadarDone /\ reply.args.up = 1
  /\ req.layers # Undef /\ Len(req.layers.p) = 2
  /\ reply.args.layers = <<"Radar:suomi_rr_eureffin">>
  /\ \E i \in 1..2 : req.layers.p[i].id = "Radar:other"

\* The bbox parameter is four pieces, each starting with a finite number.
FourNumbers ==
  /\ req.bbox # Undef
  /\ Len(req.bbox.p) = 4
  /\ \A i \in 1..4 : req.bbox.p[i].pre # <<>>

\* C12: every bbox component sent upstream lies within the WebMercator bounds:
\* the number given when that is inside, the nearer bound otherwise; a bbox that
\* is not four finite numbers is answered 400 with no upstream request.
C12_BboxClamped ==
  (RadarDone /\ KeptLayers # <<>>) =>
    /\ ~FourNumbers =>
         /\ reply.status = 400 /\ reply.error = "Invalid bbox"
         /\ reply.args.up = 0 /\ tile = reply.args.seen
    /\ reply.args.up = 1 =>
         /\ FourNumbers
         /\ Len(reply.args.bbox) = 4
         /\ \A i \in 1..4 :
              LET given == req.bbox.p[i].pre[1]
                  sent == reply.args.bbox[i].n
              IN  /\ sent >= -WEB_MERCATOR_MAX /\ sent <= WEB_MERCATOR_MAX
                  /\ (given >= -WEB_MERCATOR_MAX /\ given <= WEB_MERCATOR_MAX)
                       => sent = given
                  /\ given < -WEB_MERCATOR_MAX => sent = -WEB_MERCATOR_MAX
                  /\ given > WEB_MERCATOR_MAX => sent = WEB_MERCATOR_MAX

\* A request went upstream with one component cut to each bound.
C12_Witness ==
  /\ RadarDone /\ reply.args.up = 1 /\ FourNumbers
  /\ req.bbox.p[1].pre[1] < -WEB_MERCATOR_MAX
  /\ req.bbox.p[2].pre[1] > WEB_MERCATOR_MAX
  /\ reply.args.bbox[1].n = -WEB_MERCATOR_MAX
  /\ reply.args.bbox[2].n = WEB_MERCATOR_MAX
  /\ reply.args.bbox[3].n = 2500

Failures == {"status", "malformed", "transport"}

\* C13: on the radar proxy and the image proxy an upstream non-success status,
\* an unreadable body or a transport failure is answered 502; the radar cache
\* entry of the key is then as it was before, and a radar request that finds no
\* fresh entry goes upstream.
C13_ProxyFailureIs502 ==
  (reply # Idle /\ req.path \in {"radar", "solarimage"}) =>
    /\ reply.args.outcome \in Failures => reply.status = 502
    /\ (req.path = "radar" /\ reply.status = 502) => tile = reply.args.seen
    /\ (req.path = "radar" /\ reply.status \in {200, 502}) =>
         (reply.args.up = 1 <=>
            (reply.args.seen = Absent
               \/ reply.args.now - reply.args.seen.ts >= TTL_MS))

\* A radar request failed while an expired tile was cached; the tile is kept.
C13_Witness ==
  /\ RadarDone /\ reply.status = 502
  /\ reply.args.outcome = "malformed"
  /\ tile # Absent /\ tile = reply.args.seen
  /\ reply.args.now - tile.ts >= TTL_MS

\* The station code the request names, in upper case ("" when it names none).
NamedStation == IF req.station = Undef THEN "" ELSE req.station.code

\* C14: for every station code outside the twelve accepted ones, in any letter
\* case, the minute-window endpoint serves station KEV and the text-dump
\* endpoint answers 400 without an upstream request.
C14_TwelveStations ==
  (reply # Idle /\ req.path \in {"bx", "textdata"}
     /\ NamedStation \notin FMI_STATIONS) =>
    /\ req.path = "bx" => (reply.status = 200 /\ reply.args.station = "KEV")
    /\ req.path = "textdata" => (reply.status = 400 /\ reply.args.up = 0)

\* The same with the text-dump endpoint's own list of thirteen codes.
C14_ThirteenOnTextDump ==
  (reply # Idle /\ req.path \in {"bx", "textdata"}) =>
    /\ (req.path = "bx" /\ NamedStation \notin FMI_STATIONS) =>
         (reply.status = 200 /\ reply.args.station = "KEV")
    /\ (req.path = "bx" /\ NamedStation \in FMI_STATIONS) =>
         reply.args.station = NamedStation
    /\ req.path = "textdata" =>
         ((reply.status = 400 /\ reply.args.up = 0)
            <=> NamedStation \notin FMI_STATIONS \cup {"SOD"})

\* The whole number the minutes parameter starts with, in thousandths; none
\* when it is absent, empty or starts with no number.
WholeMinutes ==
  IF req.minutes \in {Undef, EmptyStr} \/ req.minutes.pre = <<>> THEN Null
  ELSE LET n == req.minutes.pre[1]
       IN  Num(CHOOSE w \in {k * 1000 : k \in -1000..1000} :
                 IF n >= 0 THEN w <= n /\ n < w + 1000
                 ELSE w >= n /\ n > w - 1000)

\* C15: the window passed to getFmiBx is a whole number of minutes in
\* [5, 180]: the parsed value when that is in range, 5 below it, 180 above it
\* (999 gives 180, 1 gives 5), 60 when the parameter is absent or no number.
C15_MinutesClamped ==
  (reply # Idle /\ req.path = "bx") =>
    LET m == reply.args.minutes.n
        w == WholeMinutes
    IN  /\ m % 1000 = 0 /\ m >= 5000 /\ m <= 180000
        /\ w = Null => m = 60000
        /\ (w # Null /\ w.n >= 5000 /\ w.n <= 180000) => m = w.n
        /\ (w # Null /\ w.n < 5000) => m = 5000
        /\ (w # Null /\ w.n > 180000) => m = 180000
        /\ req.minutes = Str(<<999000>>, "") => m = 180000
        /\ req.minutes = Str(<<1000>>, "") => m = 5000

\* minutes=999 was served with a window of 180.
C15_Witness ==
  /\ reply # Idle /\ req.path = "bx"
  /\ req.minutes = Str(<<999000>>, "")
  /\ reply.args.minutes = Num(180000)

\* A parameter that is given but is no finite number between lowest and
\* highest.
BadNumber(q, lowest, highest) ==
  /\ q # Undef
  /\ \/ q.pre = <<>>
     \/ q.pre[1] < lowest
     \/ q.pre[1] > highest

\* The request carries a parameter that fails validation, station codes and
\* the minute window aside.
InvalidRequest ==
  \/ /\ req.path = "weather"
     /\ \/ BadNumber(req.lat, -90000, 90000)
        \/ BadNumber(req.lon, -180000, 180000)
  \/ /\ req.path = "solarlunar"
     /\ \/ BadNumber(req.lat, -90000, 90000)
        \/ BadNumber(req.lon, -180000, 180000)
        \/ (req.date # Undef /\ req.date.t # "time")
  \/ /\ req.path = "solarimage"
     /\ req.src \notin {Undef, EmptyStr, Str(<<>>, "soho_sunspot")}
  \/ /\ req.path = "radar"
     /\ (KeptLayers = <<>> \/ ~FourNumbers)

\* C16: a request with a parameter that fails validation is answered 400 with
\* an explanatory message, on every endpoint.
C16_InvalidIs400 ==
  (reply # Idle /\ InvalidRequest) =>
    (reply.status = 400 /\ reply.error # "")

\* What holds of the two endpoints that do reject: the radar proxy for its
\* layers and bbox, the image proxy for a source that is no property of the
\* table.
C16_ProxiesReject ==
  (reply # Idle /\ InvalidRequest
     /\ req.path \in {"radar", "solarimage"}
     /\ (req.path = "solarimage" => req.src # Str(<<>>, "constructor"))) =>
    (reply.status = 400 /\ reply.error # "")

-----------------------------------------------------------------------------
(* SpecFetchPair: the two upstream requests of getSolarwind, lines 382-486 *)

\* Bodies the feeds may answer with: no row, or one row.
PairPlasma == {<<>>} \cup {<<r>> : r \in UNION {PlasmaRows(w) : w \in FeedWalls}}
PairMag == {<<>>} \cup {<<r>> : r \in UNION {MagRows(w, FALSE) : w \in FeedWalls}}

pairOthers == <<tz, timeVars, pickVars, srvVars, kpVars, httpVars, warmVars,
                xmlVars, feedVars, dashVars, magMarked, offsetMin>>

\* The feed that answered is used alone when the other one failed.
SolarwindResult_Partial(po, mo, pJson, mJson, off, zone, now) ==
  IF po = "ok" /\ mo = "ok" THEN LiveSolarwind(pJson, mJson, off, zone, now)
  ELSE IF po = "ok" THEN LiveSolarwind(pJson, <<>>, off, zone, now)
  ELSE IF mo = "ok" THEN LiveSolarwind(<<>>, mJson, off, zone, now)
  ELSE mockSolarwindData(now)

\* What getSolarwind returns and caches once both requests are settled with
\* outcomes po and mo: the try block completes only when both succeeded and
\* both bodies parsed (387-388), else the catch block answers (481-486).
SolarwindResult(po, mo, pJson, mJson, off, zone, now) ==
  IF po = "ok" /\ mo = "ok" THEN LiveSolarwind(pJson, mJson, off, zone, now)
  ELSE mockSolarwindData(now)

InitPair ==
  /\ tz = 0
  /\ plasmaJson \in PairPlasma
  /\ magJson \in PairMag
  /\ magMarked = FALSE /\ offsetMin = 0
  /\ swOut = Idle
  /\ swRes = Idle
  /\ TimeIdle /\ PickIdle /\ SrvIdle /\ KpIdle /\ HttpIdle /\ WarmIdle
  /\ XmlIdle /\ FeedIdle /\ DashIdle

\* Lines 383-386: both fetch calls are made to build the array handed to
\* Promise.all, then the call is suspended.
PairBegin ==
  /\ swRes = Idle
  /\ swRes' = [plasma |-> "pending", mag |-> "pending"]
  /\ UNCHANGED <<pairOthers, plasmaJson, magJson, swOut>>

\* Both requests are settled and getSolarwind returns.
PairSettle ==
  /\ swRes # Idle /\ swRes.plasma = "pending"
  /\ \E po \in Outcomes, mo \in Outcomes :
       /\ swRes' = [plasma |-> po, mag |-> mo]
       /\ swOut' = SolarwindResult(po, mo, plasmaJson, magJson, offsetMin, tz,
                                   clock)
  /\ UNCHANGED <<pairOthers, plasmaJson, magJson>>

\* The next call, with the feeds holding other bodies.
PairNext ==
  /\ swOut # Idle
  /\ plasmaJson' \in PairPlasma
  /\ magJson' \in PairMag
  /\ swOut' = Idle
  /\ swRes' = Idle
  /\ UNCHANGED pairOthers

NextPair == PairBegin \/ PairSettle \/ PairNext

SpecFetchPair == InitPair /\ [][NextPair]_vars

\* C17: both requests are issued before either is awaited; when either is
\* unsuccessful (non-success status, transport error or unparseable body) the
\* payload returned is the mock one, nothing in it comes from the feed that did
\* answer, and the caller gets a payload, not the error.
C17_PairFailsTogether ==
  /\ swRes # Idle => (swRes.plasma = "pending" <=> swRes.mag = "pending")
  /\ (swRes # Idle /\ swRes.plasma # "pending"
        /\ (swRes.plasma # "ok" \/ swRes.mag # "ok")) =>
       /\ swOut # Idle /\ swOut.t = "mock"
       /\ swOut.updatedAt = ToISOString(clock)
       /\ \A f \in {"labels", "times", "speed", "density"} : swOut[f] = Random
       /\ \A f \in {"bz", "bt", "speed", "density"} : swOut.now[f] = Random

\* The plasma feed answered with a row, the magnetic feed with a non-success
\* status.
C17_Witness ==
  /\ swRes # Idle /\ swRes.plasma = "ok" /\ swRes.mag = "status"
  /\ plasmaJson # <<>>
  /\ swOut # Idle /\ swOut.t = "mock"

-----------------------------------------------------------------------------
(* SpecKp: the Kp feed (a header row, then data rows) and getKp's payload *)

KpWindow == 2      \* stands for the 8 of rows.slice(-8)
MaxKpRows == 4     \* data rows the Kp feed holds

\* row[i] of an array: undefined past its end.
Cell(row, i) == IF i \in 1..Len(row) THEN row[i] ELSE Undef

\* headers.forEach((h, i) => { o[h] = row[i]; }), line 79.
RECURSIVE zipRowFrom(_, _, _, _)
zipRowFrom(headers, row, i, out) ==
  IF i > Len(headers) THEN out
  ELSE zipRowFrom(headers, row, i + 1, Put(out, headers[i], Cell(row, i)))

\* Mutant: the cells are stored as received.
arrayRow_Unconverted(headers, row) == zipRowFrom(headers, row, 1, EmptyObj)

\* The map callback of lines 77-86.
arrayRow(headers, row) ==
  LET o == zipRowFrom(headers, row, 1, EmptyObj)
  IN  Obj([k \in DOMAIN o.f |-> Converted(k, o.f[k])])

\* parseSwpcArray, lines 74-88, on an array of arrays.
parseSwpcArray(arr) ==
  IF Len(arr) < 2 THEN <<>>
  ELSE LET headers == [j \in 1..Len(arr[1]) |-> toLowerCase(arr[1][j])]
           rows == [i \in 1..(Len(arr) - 1) |-> arrayRow(headers, arr[i + 1])]
       IN  SelectSeq(rows, LAMBDA o : Truthy(Get(o, Key("time_tag"))))

\* Mutant: the window is cut from the front of the rows.
last8_FromFront(rows) ==
  SubSeq(rows, 1, IF Len(rows) > KpWindow THEN KpWindow ELSE Len(rows))

\* rows.slice(-8), line 500
last8(rows) ==
  IF Len(rows) > KpWindow
    THEN SubSeq(rows, Len(rows) - KpWindow + 1, Len(rows))
    ELSE rows

\* Lines 498-499: the key is chosen from the first row's own keys.
kpKey(rows) ==
  IF Key("kp") \in DOMAIN rows[1].f THEN Key("kp")
  ELSE IF Key("kp_index") \in DOMAIN rows[1].f THEN Key("kp_index")
  ELSE Key("kp")

\* Lines 501-505: the local day and hour of new Date(r.time_tag), counted in
\* hours; NaN for a tag that is no date.
KpLabel(tag, zone) ==
  IF tag.t = "time" THEN Num(DateParse(tag.ts, zone) + zone) ELSE NaN

\* mockKpData, lines 218-235: random values at three-hour steps ending now.
mockKpData(now, zone) ==
  [t |-> "mock",
   updatedAt |-> ToISOString(now),
   now |-> Random,
   labels |-> [i \in 1..KpWindow |-> Num(now + zone - 3 * (KpWindow - i))],
   values |-> [i \in 1..KpWindow |-> Random]]

\* What getKp returns and caches on a miss, lines 492-520: outcome is how the
\* request ended, json the body it carried.
KpResult(outcome, json, zone, now) ==
  LET rows == parseSwpcArray(json)
      tail == last8(rows)
      values == [i \in 1..Len(tail) |->
                   round1(toNumber(Get(tail[i], kpKey(rows))))]
  IN  IF outcome # "ok" \/ Len(rows) = 0 THEN mockKpData(now, zone)
      ELSE [t |-> "live",
            updatedAt |-> ToISOString(now),
            now |-> values[Len(values)],
            labels |-> [i \in 1..Len(tail) |->
                          KpLabel(TimeTag(tail[i]), zone)],
            values |-> values]

\* Header rows the feed may carry: the published one, one in other letter case
\* naming the column kp_index, one with a further column, one naming no Kp
\* column and one naming no time column.
KpHeaders ==
  { <<Key("time_tag"), Name("kp", TRUE, FALSE)>>,
    <<Name("time_tag", TRUE, FALSE), Key("kp_index")>>,
    <<Key("time_tag"), Key("kp_index"), Key("kp")>>,
    <<Key("time_tag"), Key("estimated_kp")>>,
    <<Key("kp")>> }

\* Data rows the feed may carry: a tagged row with its Kp as a string, as a
\* number or null, and a row without time tag.
KpRows ==
  { <<FeedTime(w, FALSE), Str(<<2670 + 1000 * w>>, "")>> : w \in FeedWalls }
    \cup { <<FeedTime(1, FALSE), Num(5330)>>,
           <<FeedTime(2, FALSE), Null>>,
           <<Null, Str(<<7000>>, "")>>,
           <<FeedTime(0, FALSE), Num(4000), Num(6450)>> }

kpOthers == <<timeVars, pickVars, swVars, srvVars, pairVars, httpVars,
              warmVars, xmlVars, feedVars, dashVars>>

InitKp ==
  /\ tz \in SwTimeZones
  /\ kpJson \in {<<>>} \cup {<<h>> : h \in KpHeaders}
  /\ kpOut = Idle
  /\ TimeIdle /\ PickIdle /\ SwIdle /\ SrvIdle /\ PairIdle /\ HttpIdle
  /\ WarmIdle /\ XmlIdle /\ FeedIdle /\ DashIdle

\* The feed gains a data row.
KpPublish ==
  /\ Len(kpJson) \in 1..MaxKpRows
  /\ \E row \in KpRows : kpJson' = Append(kpJson, row)
  /\ kpOut' = Idle
  /\ UNCHANGED <<tz, kpOthers>>

\* getKp on a cache miss.
KpFetch ==
  /\ kpOut = Idle
  /\ \E outcome \in Outcomes : kpOut' = KpResult(outcome, kpJson, tz, clock)
  /\ UNCHANGED <<tz, kpJson, kpOthers>>

NextKp == KpPublish \/ KpFetch

SpecKp == InitKp /\ [][NextKp]_vars

\* The column of the header row named base in any letter case, 0 if none.
KpColumn(base) ==
  IF kpJson = <<>> THEN 0
  ELSE LET hit == {c \in 1..Len(kpJson[1]) : kpJson[1][c].base = base}
       IN  IF hit = {} THEN 0 ELSE CHOOSE c \in hit : TRUE

\* The data rows of the feed that carry a time tag, by position, in feed order.
KpTagged ==
  LET c == KpColumn("time_tag")
  IN  SelectSeq([i \in 1..(Len(kpJson) - 1) |-> i + 1],
                LAMBDA i : c # 0 /\ Cell(kpJson[i], c) \notin {Null, Undef, EmptyStr})

\* The rounded Kp of the data row at position i: the cell of the column kp,
\* of the column kp_index when there is no column kp.
KpOfRow(i) ==
  LET c == IF KpColumn("kp") # 0 THEN KpColumn("kp") ELSE KpColumn("kp_index")
  IN  IF c = 0 THEN Null ELSE round1(toNumber(Cell(kpJson[i], c)))

\* C18: a live Kp payload is built from the last KpWindow tagged rows of the
\* feed (all of them when there are fewer), in feed order: labels and values
\* are as long as that window, values[j] is the rounded Kp of its j-th row and
\* now is the last element of values; a feed without tagged row gives the mock.
C18_LastRowsOfFeed ==
  kpOut # Idle =>
    LET tagged == KpTagged
        n == IF Len(tagged) > KpWindow THEN KpWindow ELSE Len(tagged)
    IN  /\ kpOut.t = "live" =>
             /\ n >= 1
             /\ Len(kpOut.values) = n /\ Len(kpOut.labels) = n
             /\ n <= KpWindow
             /\ \A j \in 1..n :
                  kpOut.values[j] = KpOfRow(tagged[Len(tagged) - n + j])
             /\ kpOut.now = kpOut.values[n]
        /\ Len(tagged) = 0 => kpOut.t = "mock"

\* A live payload from a feed with more tagged rows than the window holds, an
\* untagged row among the last ones, and two different values kept.
C18_Witness ==
  /\ kpOut # Idle /\ kpOut.t = "live"
  /\ Len(KpTagged) > KpWindow
  /\ Len(kpJson) - 1 > Len(KpTagged)
  /\ KpTagged[Len(KpTagged)] # Len(kpJson)
  /\ Len(kpOut.values) = KpWindow
  /\ kpOut.values[1] # kpOut.values[KpWindow]
  /\ kpOut.values[KpWindow] # Null

-----------------------------------------------------------------------------
(* SpecWarm: refreshAll, its two timers and the entries it covers *)

MaxWarmClock == 4    \* Date.now() ranges over 0..MaxWarmClock

\* The getter calls of refreshAll in their order, lines 925-940, by cache key,
\* with the first of the twelve stations.
Covered == <<"solarwind", "kp", "rx", "KEV-60">>
Resources == {Covered[i] : i \in 1..Len(Covered)}

\* The endpoint whose getter serves cache key r.
Getter(r) == IF r \in {"solarwind", "kp", "rx"} THEN r ELSE "fmiBx"

warmOthers == <<tz, timeVars, pickVars, swVars, ep, entry, calls, resp, pairVars,
                kpVars, httpVars, xmlVars, feedVars, dashVars>>

\* The cache as constructed, the interval timer set (942) and the warm-up
\* timer set by the listen callback (950): it fires within the first unit.
InitWarm ==
  /\ tz = 0
  /\ ep = "none" /\ clock = 0 /\ entry = Idle /\ calls = <<>> /\ resp = Idle
  /\ wCache = [r \in Resources |-> InitialEntry(Getter(r))]
  /\ wRun = Idle
  /\ wDue = TTL_MS
  /\ wLog = Idle
  /\ TimeIdle /\ PickIdle /\ SwIdle /\ PairIdle /\ KpIdle /\ HttpIdle /\ XmlIdle
  /\ FeedIdle /\ DashIdle

\* Time passes between runs and while a getter is suspended at its fetch: a
\* timer that is due fires before the clock moves on, getters follow each other
\* without delay, and the run in progress ends before the interval timer is due
\* again.
TickWarm ==
  /\ clock < MaxWarmClock
  /\ wRun = Idle => (wLog # Idle /\ clock < wDue)
  /\ wRun # Idle => (wRun.pending /\ clock + 1 < wDue)
  /\ clock' = clock + 1
  /\ UNCHANGED <<warmOthers, warmVars>>

\* refreshAll as called with no getter called yet; n counts the runs.
NewRun(n) ==
  [n |-> n, at |-> 1, pending |-> FALSE, now |-> 0, seen |-> Idle,
   calls |-> <<>>]

\* The timeout of line 950 fires: the one-shot warm-up.
WarmUp ==
  /\ wRun = Idle /\ wLog = Idle
  /\ wRun' = NewRun(0)
  /\ UNCHANGED <<warmOthers, clock, wCache, wDue, wLog>>

\* The interval of line 942 fires.
IntervalFires ==
  /\ wRun = Idle /\ wLog # Idle
  /\ clock = wDue
  /\ wRun' = NewRun(wLog.n + 1)
  /\ wDue' = wDue + TTL_MS
  /\ UNCHANGED <<warmOthers, clock, wCache, wLog>>

\* The run after the getter for Covered[wRun.at] returned: the next getter is
\* due, or refreshAll returns.
Returned(run, call) ==
  IF run.at = Len(Covered) THEN Idle
  ELSE [run EXCEPT !.at = run.at + 1, !.pending = FALSE, !.now = 0,
                   !.seen = Idle,
                   !.calls = Append(run.calls, call)]

LogOf(run, call) ==
  IF run.at = Len(Covered) THEN [n |-> run.n, calls |-> Append(run.calls, call)]
  ELSE wLog

\* One getter call of the run: a fresh entry is returned as it is; getRx
\* (523-529) stores a new payload at once; the other getters are suspended at
\* their fetch.
RunCall ==
  /\ wRun # Idle /\ ~wRun.pending
  /\ LET r == Covered[wRun.at]
         hit == Fresh(Getter(r), wCache[r], clock)
         call == [key |-> r, now |-> clock, seen |-> wCache[r], hit |-> hit]
     IN  IF hit
           THEN /\ wRun' = Returned(wRun, call)
                /\ wLog' = LogOf(wRun, call)
                /\ UNCHANGED wCache
         ELSE IF r = "rx"
           THEN /\ wCache' = [wCache EXCEPT
                       ![r] = Stored([by |-> wRun.n], clock, clock)]
                /\ wRun' = Returned(wRun, call)
                /\ wLog' = LogOf(wRun, call)
         ELSE /\ wRun' = [wRun EXCEPT !.pending = TRUE, !.now = clock,
                                      !.seen = wCache[r]]
              /\ UNCHANGED <<wCache, wLog>>
  /\ UNCHANGED <<warmOthers, clock, wDue>>

\* The getter the run is suspended in gets its answer (live or mock) and
\* stores it.
RunSettle ==
  /\ wRun # Idle /\ wRun.pending
  /\ LET r == Covered[wRun.at]
         call == [key |-> r, now |-> wRun.now, seen |-> wRun.seen, hit |-> FALSE]
     IN  /\ wCache' = [wCache EXCEPT
                 ![r] = Stored([by |-> wRun.n], wRun.now, clock)]
         /\ wRun' = Returned(wRun, call)
         /\ wLog' = LogOf(wRun, call)
  /\ UNCHANGED <<warmOthers, clock, wDue>>

\* A foreground request for a covered resource whose entry is not fresh: the
\* getter fetches and stores.
Foreground ==
  /\ \E r \in Resources :
       /\ ~Fresh(Getter(r), wCache[r], clock)
       /\ wCache' = [wCache EXCEPT
               ![r] = Stored([by |-> -1], clock, clock)]
  /\ UNCHANGED <<warmOthers, clock, wRun, wDue, wLog>>

NextWarm ==
  TickWarm \/ WarmUp \/ IntervalFires \/ RunCall \/ RunSettle \/ Foreground

SpecWarm == InitWarm /\ [][NextWarm]_vars

\* C19: every run of refreshAll re-fetches and overwrites the entry of every
\* resource it covers, and between two consecutive runs no entry expires.
C19_EveryRunOverwrites ==
  /\ wLog # Idle => \A i \in 1..Len(wLog.calls) : ~wLog.calls[i].hit
  /\ (wLog # Idle /\ wRun = Idle /\ clock < wDue) =>
       \A r \in Resources : Fresh(Getter(r), wCache[r], clock)

\* C19, as the code has it: a run calls each getter once, in the order of
\* lines 925-940, and a getter leaves alone the entry that is younger than the
\* TTL when it is called.
C19_RunSkipsFresh ==
  wLog # Idle =>
    /\ Len(wLog.calls) = Len(Covered)
    /\ \A i \in 1..Len(Covered) :
         /\ wLog.calls[i].key = Covered[i]
         /\ wLog.calls[i].hit <=>
              /\ wLog.calls[i].seen # Absent
              /\ wLog.calls[i].seen.data # Null
              /\ wLog.calls[i].now - wLog.calls[i].seen.ts < TTL_MS

-----------------------------------------------------------------------------
(* Spec: the timestamp of a stored entry *)

\* C20: whenever a result is stored, the entry's timestamp is the clock value
\* at the moment of the store, so that the entry stays fresh for a full TTL
\* after it was written.
C20_StampedAtStore ==
  [][entry' # entry =>
       /\ entry'.ts = clock'
       /\ Fresh(ep, entry', clock' + TtlOf(ep) - 1)]_vars

-----------------------------------------------------------------------------
(* Spec: calls of one key that overlap *)

\* The upstream requests of one fetch round, by endpoint.
RoundOf(e) == CASE e = "solarwind" -> 2 [] e = "rx" -> 0 [] OTHER -> 1

\* The last completed call was a miss, and the entry it replaced was stored by
\* the other call after this call had tested the cache: had it been there, the
\* test would have found it fresh.
Overlapped ==
  /\ Completed /\ ~resp.hit /\ resp.slot \in Slots
  /\ resp.before # Absent /\ resp.before.data # Null
  /\ resp.before # resp.seen
  /\ resp.before.data.by \in Slots \ {resp.slot}
  /\ resp.now - resp.before.ts < TtlOf(ep)

\* C21: a call that finds the entry expired issues its own fetch round whether
\* or not another call of the key is in flight; it completes with its own
\* payload, and the entry then holds that call's data with that call's
\* timestamp.  The entry never pairs the data of one call with the timestamp of
\* another.
C21_NoSingleFlight ==
  /\ \A s \in Slots :
       (ep \in CachedEndpoints /\ calls[s] # Idle) =>
         calls[s].reqs = RoundOf(ep)
  /\ (Completed /\ ~resp.hit /\ resp.slot \in Slots) =>
       /\ resp.status = 200 /\ resp.data # Null
       /\ resp.reqs = RoundOf(ep)
       /\ resp.data.by = resp.slot /\ resp.data.at = resp.now
       /\ entry = [data |-> resp.data, ts |-> resp.now]
  /\ (ep \in CachedEndpoints /\ entry # Absent /\ entry.data # Null) =>
       entry.ts = entry.data.at
  /\ Overlapped => resp.before.ts = resp.before.data.at

\* Two solar-wind calls overlapped and both have completed: the entry holds the
\* result of the one that completed last.
C21_Witness ==
  /\ Overlapped /\ ep = "solarwind"
  /\ \A s \in Slots : calls[s] = Idle
  /\ entry.data.by = resp.slot
  /\ entry # resp.before

\* C27: the entry's timestamp never decreases, and a result is never replaced
\* by the result of a fetch that began earlier.
C27_NeverOlder ==
  (Completed /\ ~resp.hit /\ resp.before # Absent /\ resp.before.data # Null) =>
    /\ resp.after.ts >= resp.before.ts
    /\ resp.after.data.at >= resp.before.data.at

\* C27, as the code has it: the call that completes last leaves its result,
\* stamped with the time at which it began, whatever the entry held.
C27_LastStoreWins ==
  (Completed /\ ~resp.hit) =>
    /\ entry = resp.after
    /\ entry.ts = resp.now

-----------------------------------------------------------------------------
(* SpecFmiXml: parseFmiMagnetometerXml, lines 248-306 *)

MaxBlocks == 3     \* BsWfsElement blocks of the response body

\* What one block carries: its Time, ParameterName, ParameterValue and
\* gml:name elements, Undef for an element the block lacks.
Block(time, name, value, station) ==
  [time |-> time, name |-> name, value |-> value, station |-> station]

XmlTimes == {Undef} \cup {Time(ToISOString(w)) : w \in {0, 1}}

\* Blocks the body may hold: a BX or a BZ value, a BX value that is no number,
\* another parameter, a block without parameter, each with or without Time, and
\* a block naming the station.
Blocks ==
  { Block(t, pv[1], pv[2], Undef) :
      t \in XmlTimes,
      pv \in { <<"BX", Str(<<12500>>, "")>>, <<"BZ", Str(<<-40300>>, "")>>,
               <<"BX", Str(<<>>, "NaN")>>, <<"TEMP", Str(<<3000>>, "")>>,
               <<"none", Undef>> } }
    \cup { Block(Undef, "none", Undef, Str(<<>>, "KEV")) }

\* The loop variables of lines 255-258 and the rows pushed so far.
XmlStart == [rows |-> <<>>, currentTime |-> Null, bx |-> Null, bz |-> Null,
             station |-> Null]

\* if (currentTime && (bx !== null || bz !== null)) rows.push(...)
Flushed(a) ==
  IF a.currentTime # Null /\ (a.bx # Null \/ a.bz # Null)
    THEN Append(a.rows, [time |-> a.currentTime, bx |-> a.bx, bz |-> a.bz,
                         station |-> a.station])
    ELSE a.rows

\* Number.isFinite(parseFloat(text)) ? parseFloat(text) : null
FiniteOrNull(v) == toNumber(v)

\* Lines 262-272: a block that has a Time element flushes the row in progress
\* and starts the next one.
OnTime(a, e) ==
  IF e.time = Undef THEN a
  ELSE [a EXCEPT !.rows = Flushed(a), !.currentTime = e.time,
                 !.bx = Null, !.bz = Null]

\* Lines 275-287
OnParameter(a, e) ==
  IF e.name = "none" \/ e.value = Undef THEN a
  ELSE IF e.name = "BX" THEN [a EXCEPT !.bx = FiniteOrNull(e.value)]
  ELSE IF e.name = "BZ" THEN [a EXCEPT !.bz = FiniteOrNull(e.value)]
  ELSE a

\* Lines 290-293
OnStation(a, e) ==
  IF e.station = Undef THEN a ELSE [a EXCEPT !.station = e.station]

RECURSIVE xmlLoop(_, _, _)
xmlLoop(entries, i, a) ==
  IF i > Len(entries) THEN a
  ELSE xmlLoop(entries, i + 1,
               OnStation(OnParameter(OnTime(a, entries[i]), entries[i]),
                         entries[i]))

parseFmiMagnetometerXml(entries) == Flushed(xmlLoop(entries, 1, XmlStart))

xmlOthers == <<tz, timeVars, pickVars, swVars, srvVars, pairVars, kpVars,
               httpVars, warmVars, feedVars, dashVars>>

InitXml ==
  /\ tz = 0
  /\ xmlIn = <<>>
  /\ xmlOut = Idle
  /\ TimeIdle /\ PickIdle /\ SwIdle /\ SrvIdle /\ PairIdle /\ KpIdle
  /\ HttpIdle /\ WarmIdle /\ FeedIdle /\ DashIdle

\* The response body holds one more block.
XmlAppend ==
  /\ Len(xmlIn) < MaxBlocks
  /\ \E e \in Blocks : xmlIn' = Append(xmlIn, e)
  /\ xmlOut' = Idle
  /\ UNCHANGED xmlOthers

XmlParse ==
  /\ xmlOut = Idle
  /\ xmlOut' = [rows |-> parseFmiMagnetometerXml(xmlIn)]
  /\ UNCHANGED <<xmlOthers, xmlIn>>

NextXml == XmlAppend \/ XmlParse

SpecFmiXml == InitXml /\ [][NextXml]_vars

\* C22: at most one row per timestamp of the input; blocks carrying the same
\* timestamp are accumulated into one row with both values.
C22_OneRowPerTimestamp ==
  xmlOut # Idle =>
    \A i, j \in 1..Len(xmlOut.rows) :
      xmlOut.rows[i].time = xmlOut.rows[j].time => i = j

\* The blocks that carry a Time element, by position.
TimedBlocks == {i \in 1..Len(xmlIn) : xmlIn[i].time # Undef}

\* The blocks accumulated with timed block i: up to the next timed block.
GroupOf(i) ==
  {k \in i..Len(xmlIn) : \A j \in TimedBlocks : j > i => k < j}

\* The last finite-or-null value of parameter name in the group of i.
GroupValue(i, name) ==
  LET hit == {k \in GroupOf(i) : xmlIn[k].name = name /\ xmlIn[k].value # Undef}
  IN  IF hit = {} THEN Null
      ELSE toNumber(xmlIn[CHOOSE k \in hit : \A l \in hit : l <= k].value)

\* C22, as the code has it: every block with a Time element starts a row of
\* its own, which collects the BX and BZ values of the blocks up to the next
\* block with a Time element and is emitted when one of the two is a number.
C22_OneRowPerTimedBlock ==
  xmlOut # Idle =>
    LET kept == {i \in TimedBlocks :
                   GroupValue(i, "BX") # Null \/ GroupValue(i, "BZ") # Null}
    IN  /\ Len(xmlOut.rows) = Cardinality(kept)
        /\ \A i \in kept :
             LET n == Cardinality({j \in kept : j <= i})
             IN  /\ xmlOut.rows[n].time = xmlIn[i].time
                 /\ xmlOut.rows[n].bx = GroupValue(i, "BX")
                 /\ xmlOut.rows[n].bz = GroupValue(i, "BZ")

-----------------------------------------------------------------------------
(* SpecFeed: parseSwpc on one table, given in either of its two formats *)

MaxFeedRows == 2   \* data rows of the table

\* A response body: kind says what JSON.parse gave for its elements, arrays
\* (a header row, then data rows) or objects (each a sequence of entries).
Body(kind, elems) == [kind |-> kind, elems |-> elems]

\* parseSwpc, lines 91-112: an empty array gives [], an array of arrays goes to
\* parseSwpcArray, an array of objects is mapped and filtered.
parseSwpcJson(b) ==
  IF Len(b.elems) = 0 THEN <<>>
  ELSE IF b.kind = "arrays" THEN parseSwpcArray(b.elems)
  ELSE parseSwpc(b.elems)

\* The table as a header row followed by data rows.
AsArrays(tbl) == Body("arrays", <<tbl.head>> \o tbl.rows)

\* The table as keyed objects, one per data row, keys in column order.
AsObjects(tbl) ==
  Body("objects",
       [i \in 1..Len(tbl.rows) |->
          [j \in 1..Len(tbl.head) |-> Entry(tbl.head[j], tbl.rows[i][j])]])

\* Header rows: the column names in the letter case of the feed, in either
\* order, with a column of text, with two columns of one name, and without
\* time column.
FeedHeads ==
  { <<Key("time_tag"), Key("speed")>>,
    <<Name("time_tag", TRUE, FALSE), Name("speed", TRUE, FALSE), Key("source")>>,
    <<Key("speed"), Key("time_tag")>>,
    <<Key("time_tag"), Name("density", TRUE, FALSE), Key("density")>>,
    <<Key("speed")>> }

\* The cells a column may hold.
FeedCells(name) ==
  CASE name.base = "time_tag" ->
         {FeedTime(0, FALSE), FeedTime(1, FALSE), EmptyStr, Null}
    [] name.base = "speed" ->
         {Num(400345), Str(<<612340>>, ""), Str(<<>>, "n/a"), Null}
    [] name.base = "source" -> {Str(<<>>, "ACE"), Null}
    [] OTHER -> {Str(<<5057>>, ""), Str(<<>>, "n/a")}

FeedRows(head) ==
  {row \in [1..Len(head) -> UNION {FeedCells(head[j]) : j \in 1..Len(head)}] :
     \A j \in 1..Len(head) : row[j] \in FeedCells(head[j])}

feedOthers == <<tz, timeVars, pickVars, swVars, srvVars, pairVars, kpVars,
                httpVars, warmVars, xmlVars, dashVars>>

InitFeed ==
  /\ tz = 0
  /\ \E head \in FeedHeads : feedTbl = [head |-> head, rows |-> <<>>]
  /\ feedOut = Idle
  /\ TimeIdle /\ PickIdle /\ SwIdle /\ SrvIdle /\ PairIdle /\ KpIdle
  /\ HttpIdle /\ WarmIdle /\ XmlIdle /\ DashIdle

\* The table gains a data row.
FeedPublish ==
  /\ Len(feedTbl.rows) < MaxFeedRows
  /\ \E row \in FeedRows(feedTbl.head) :
       feedTbl' = [feedTbl EXCEPT !.rows = Append(feedTbl.rows, row)]
  /\ feedOut' = Idle
  /\ UNCHANGED feedOthers

\* parseSwpc applied to the table in each format.
FeedParse ==
  /\ feedOut = Idle
  /\ feedOut' = [arrays |-> parseSwpcJson(AsArrays(feedTbl)),
                 objects |-> parseSwpcJson(AsObjects(feedTbl))]
  /\ UNCHANGED <<feedOthers, feedTbl>>

NextFeed == FeedPublish \/ FeedParse

SpecFeed == InitFeed /\ [][NextFeed]_vars

\* The column that decides under the lower-case name base: the last one so
\* named, 0 if there is none.
FeedColumn(base) ==
  LET hit == {c \in 1..Len(feedTbl.head) : feedTbl.head[c].base = base}
  IN  IF hit = {} THEN 0 ELSE CHOOSE c \in hit : \A d \in hit : d <= c

\* The data rows with a non-empty time tag, by position, in table order.
FeedTagged ==
  LET c == FeedColumn("time_tag")
  IN  SelectSeq([i \in 1..Len(feedTbl.rows) |-> i],
                LAMBDA i : c # 0 /\ feedTbl.rows[i][c] \notin {Null, EmptyStr})

FeedBases == {feedTbl.head[c].base : c \in 1..Len(feedTbl.head)}

\* A cell can be read as a number.
Numeric(v) == v \notin {Null, Undef, EmptyStr} /\ toNumber(v) # Null

\* C23: in every record parseSwpc returns, every field other than time_tag
\* holds a finite number or is absent (null counted as absent): a value that
\* is there and does not read as a number is dropped.
C23_NumberOrDropped ==
  feedOut # Idle =>
    \A f \in {"arrays", "objects"} : \A i \in 1..Len(feedOut[f]) :
      \A k \in DOMAIN feedOut[f][i].f :
        k # Key("time_tag") => feedOut[f][i].f[k].t \in {"num", "null", "undef"}

\* C23 amended: every column of the table is a field of every record; a field
\* other than time_tag holds the number its cell reads as, and the cell as
\* received (text, '' or null) when it does not read as a number.
C23_NumberOrAsReceived ==
  feedOut # Idle =>
    \A f \in {"arrays", "objects"} : \A i \in 1..Len(feedOut[f]) :
      LET rec == feedOut[f][i]
          row == feedTbl.rows[FeedTagged[i]]
      IN  /\ DOMAIN rec.f = {Key(b) : b \in FeedBases}
          /\ \A b \in FeedBases \ {"time_tag"} :
               LET cell == row[FeedColumn(b)]
               IN  rec.f[Key(b)] =
                     IF Numeric(cell) THEN toNumber(cell) ELSE cell

\* A record with a numeric string turned into a number and a text kept.
C23_Witness ==
  /\ feedOut # Idle /\ Len(feedOut.arrays) >= 1
  /\ \E i \in 1..Len(feedOut.objects) :
       /\ Get(feedOut.objects[i], Key("density")) = Str(<<>>, "n/a")
       /\ Get(feedOut.arrays[i], Key("density")) = Str(<<>>, "n/a")
  /\ \E i \in 1..Len(feedOut.arrays) :
       Get(feedOut.arrays[i], Key("density")) = Num(5057)

\* C24: both formats of one table parse to the same sequence of records, with
\* lower-case field names; the records are those of the rows with a non-empty
\* time tag, all of them, in table order.
C24_FormatsAgree ==
  feedOut # Idle =>
    /\ feedOut.arrays = feedOut.objects
    /\ Len(feedOut.arrays) = Len(FeedTagged)
    /\ \A i \in 1..Len(feedOut.arrays) :
         /\ \A k \in DOMAIN feedOut.arrays[i].f : ~k.up
         /\ Get(feedOut.arrays[i], Key("time_tag")) \notin {Undef, Null, EmptyStr}
         /\ Get(feedOut.arrays[i], Key("time_tag")) =
              feedTbl.rows[FeedTagged[i]][FeedColumn("time_tag")]

\* A table with upper-case column names, a row without time tag ahead of a row
\* with one, and a numeric string among the kept cells.
C24_Witness ==
  /\ feedOut # Idle
  /\ feedTbl.head[1].up
  /\ Len(feedTbl.rows) = 2 /\ FeedTagged = <<2>>
  /\ Len(feedOut.objects) = 1
  /\ Get(feedOut.arrays[1], Key("speed")) = Num(612340)
  /\ Get(feedOut.arrays[1], Key("source")) = Str(<<>>, "ACE")

-----------------------------------------------------------------------------
(* SpecSat: feeds whose rows may name the spacecraft, and the source label *)

MaxSatRows == 3     \* rows the two feeds hold together
SatWalls == {0, 1}

\* Rows the plasma feed may publish for reading w: complete or without a
\* density, with or without the name of the spacecraft under 'source'.
PlasmaSatRows(w) ==
  { << Entry(Key("time_tag"), FeedTime(w, FALSE)),
       Entry(Key("speed"), Num(400345 + 1000 * w)),
       Entry(Key("density"), Num(5057 + 100 * w)) >>,
    << Entry(Key("time_tag"), FeedTime(w, FALSE)),
       Entry(Key("speed"), Num(400345 + 1000 * w)),
       Entry(Key("density"), Num(5057 + 100 * w)),
       Entry(Key("source"), Str(<<>>, "ACE")) >>,
    << Entry(Key("time_tag"), FeedTime(w, FALSE)),
       Entry(Key("speed"), Num(500678 + 1000 * w)),
       Entry(Key("density"), Null),
       Entry(Key("source"), Str(<<>>, "ACE")) >> }

\* Rows the magnetic feed may publish for reading w: complete or without a
\* total field, with or without the name of the spacecraft under 'satellite'.
MagSatRows(w) ==
  { << Entry(Key("time_tag"), FeedTime(w, FALSE)),
       Entry(Key("bz_gsm"), Num(-3070 - 100 * w)),
       Entry(Key("bt"), Num(7051 + 100 * w)) >>,
    << Entry(Key("time_tag"), FeedTime(w, FALSE)),
       Entry(Key("bz_gsm"), Num(-3070 - 100 * w)),
       Entry(Key("bt"), Num(7051 + 100 * w)),
       Entry(Key("satellite"), Str(<<>>, "DSCOVR")) >>,
    << Entry(Key("time_tag"), FeedTime(w, FALSE)),
       Entry(Key("bz_gsm"), Num(2049 + 100 * w)),
       Entry(Key("bt"), EmptyStr),
       Entry(Key("satellite"), Str(<<>>, "DSCOVR")) >> }

InitSat ==
  /\ tz = 0 /\ magMarked = FALSE /\ offsetMin = 0
  /\ plasmaJson = <<>> /\ magJson = <<>>
  /\ swOut = Idle
  /\ TimeIdle /\ PickIdle /\ SrvIdle /\ RestIdle

SatPublishPlasma ==
  /\ Len(plasmaJson) + Len(magJson) < MaxSatRows
  /\ \E w \in SatWalls : \E row \in PlasmaSatRows(w) :
       plasmaJson' = Append(plasmaJson, row)
  /\ swOut' = Idle
  /\ UNCHANGED <<restVars, tz, magJson, magMarked, offsetMin, timeVars, pickVars, srvVars>>

SatPublishMag ==
  /\ Len(plasmaJson) + Len(magJson) < MaxSatRows
  /\ \E w \in SatWalls : \E row \in MagSatRows(w) :
       magJson' = Append(magJson, row)
  /\ swOut' = Idle
  /\ UNCHANGED <<restVars, tz, plasmaJson, magMarked, offsetMin, timeVars, pickVars, srvVars>>

\* getSolarwind on a cache miss with both bodies parsed, as FetchLive.
SatFetch ==
  /\ swOut = Idle
  /\ swOut' = LiveSolarwind(plasmaJson, magJson, offsetMin, tz, clock)
  /\ UNCHANGED <<restVars, tz, plasmaJson, magJson, magMarked, offsetMin, timeVars,
                 pickVars, srvVars>>

NextSat == SatPublishPlasma \/ SatPublishMag \/ SatFetch

SpecSat == InitSat /\ [][NextSat]_vars

\* The record carries a name of the spacecraft under one of the metadata keys.
NamesSat(row) == row # Null /\ FirstTruthy(row, SatKeys, 1) # Null

DefaultSat == "DSCOVR/ACE (RTSW)"

\* C25: source.satellite names the instrument whenever a record that
\* contributes to the response carries the metadata, and is the default label
\* only when the metadata is absent.  On the strict join the contributing
\* records are the plasma and the magnetic row of the aligned time tag; on the
\* fallback path, when every row of both feeds carries the metadata, so does
\* whichever row supplied a value of now.
C25_NamesInstrument ==
  swOut.t = "live" =>
    LET p == PlasmaNow
        m == MagNow
        done == CompleteTags(p, m)
        all == {p[i] : i \in 1..Len(p)} \cup {m[i] : i \in 1..Len(m)}
        some == \E k \in {"bz", "bt", "speed", "density"} : swOut.now[k] # Null
    IN  /\ \A t \in done :
             (/\ \A u \in done : Utc(u) <= Utc(t)
              /\ NamesSat(RowAt(p, t)) \/ NamesSat(RowAt(m, t)))
               => swOut.source.satellite # DefaultSat
        /\ (done = {} /\ some /\ \A r \in all : NamesSat(r))
             => swOut.source.satellite # DefaultSat
        /\ (\A r \in all : ~NamesSat(r)) => swOut.source.satellite = DefaultSat

\* What the code does: the label names the instrument exactly when the strict
\* join found a time tag and the magnetic row of that time tag carries the
\* metadata; a name held by a plasma row, or by any row on the fallback path,
\* is not read.
C25_FromAlignedMagRow ==
  swOut.t = "live" =>
    LET p == PlasmaNow
        m == MagNow
        done == CompleteTags(p, m)
    IN  swOut.source.satellite # DefaultSat
          <=> \E t \in done : /\ \A u \in done : Utc(u) <= Utc(t)
                              /\ NamesSat(RowAt(m, t))

\* The fallback path: the only magnetic row names DSCOVR and supplies bz, and
\* the default label is reported.
C25_FallbackDefault ==
  /\ swOut.t = "live"
  /\ Len(magJson) = 1 /\ NamesSat(MagNow[1])
  /\ CompleteTags(PlasmaNow, MagNow) = {}
  /\ swOut.now.bz # Null
  /\ swOut.source.satellite = DefaultSat

-----------------------------------------------------------------------------
(* SpecSolarwind: the shape of the payload, its series and its timestamp *)

LiveFields == {"updatedAt", "now", "labels", "times", "speed", "density",
               "bz", "bt", "source"}

\* C26: the payload built when the upstream feeds fail has the same set of
\* top-level fields as a live payload: updatedAt, now, labels, times, speed,
\* density, bz, bt, source.
C26_SameTopLevelFields ==
  swOut # Idle => DOMAIN swOut \ {"t"} = LiveFields

\* The value a feed's row holds under the first good key, Null when the feed
\* has no row (row is Null) or the row no finite value.
ValueIn(row, keys) ==
  LET good == IF row = Null THEN {} ELSE GoodKeys(row, keys)
  IN  IF good = {} THEN Null
      ELSE toNumber(Get(row, keys[CHOOSE i \in good : \A j \in good : i <= j]))

\* C28: in a live response labels, times, speed, density, bz and bt have one
\* length, and index i of each refers to one time tag of the union of the two
\* feeds: speed[i] and density[i] are the plasma feed's values for that time
\* tag, bz[i] and bt[i] the magnetic feed's, null exactly when the feed has no
\* row or no finite value there.
C28_SeriesAligned ==
  swOut.t = "live" =>
    LET p == PlasmaNow
        m == MagNow
        tags == TagsOf(p) \cup TagsOf(m)
        n == Len(swOut.times)
    IN  /\ \A k \in {"labels", "speed", "density", "bz", "bt"} :
             Len(swOut[k]) = n
        /\ n = IF Cardinality(tags) > ChartWindow THEN ChartWindow
               ELSE Cardinality(tags)
        /\ \A i \in 1..n : \E t \in tags :
             /\ swOut.times[i] = Reported(t)
             /\ swOut.labels[i] = fmtHM(Reported(t), tz)
             /\ LET pr == RowAt(p, t)
                    mr == RowAt(m, t)
                IN  /\ swOut.speed[i] = round1(ValueIn(pr, SpeedKeys))
                    /\ swOut.density[i] = round2(ValueIn(pr, DensityKeys))
                    /\ swOut.bz[i] = round1(ValueIn(mr, BzKeys))
                    /\ swOut.bt[i] = round1(ValueIn(mr, BtKeys))

\* A window of two time tags: the earlier has a plasma row only, the later a
\* magnetic row only, and each series is null where its feed has no row.
C28_Witness ==
  /\ swOut.t = "live"
  /\ Len(swOut.times) = 2
  /\ swOut.speed[1] # Null /\ swOut.speed[2] = Null
  /\ swOut.bz[1] = Null /\ swOut.bz[2] # Null

\* The numbers the rows of time tag t hold under any of the keys.
MeasuredAt(rows, t, keys) ==
  {toNumber(Get(rows[i], keys[j])) :
     i \in {x \in 1..Len(rows) : TimeTag(rows[x]) = t}, j \in 1..Len(keys)}
    \ {Null}

\* C29: in a live response updatedAt is the timestamp at which the values of
\* now were measured: every value now holds is a value of a row of the feed
\* whose time tag is the one updatedAt reports; and updatedAt and every entry
\* of times are time tags of the feeds shifted by the one configured offset.
C29_NowMeasuredAtUpdatedAt ==
  swOut.t = "live" =>
    LET p == PlasmaNow
        m == MagNow
        tags == TagsOf(p) \cup TagsOf(m)
    IN  tags # {} =>
          /\ \E t \in tags :
               /\ swOut.updatedAt = Reported(t)
               /\ swOut.now.bz # Null =>
                    \E v \in MeasuredAt(m, t, BzKeys) : swOut.now.bz = round1(v)
               /\ swOut.now.bt # Null =>
                    \E v \in MeasuredAt(m, t, BtKeys) : swOut.now.bt = round1(v)
               /\ swOut.now.speed # Null =>
                    \E v \in MeasuredAt(p, t, SpeedKeys) :
                      swOut.now.speed = round1(v)
               /\ swOut.now.density # Null =>
                    \E v \in MeasuredAt(p, t, DensityKeys) :
                      swOut.now.density = round2(v)
          /\ \A i \in 1..Len(swOut.times) :
               \E t \in tags : swOut.times[i] = Reported(t)

\* The part of C29 about the offset: updatedAt and every entry of times are
\* time tags of the feeds, read as UTC and shifted by offsetMin.
C29_OneOffset ==
  swOut.t = "live" =>
    LET tags == TagsOf(PlasmaNow) \cup TagsOf(MagNow)
    IN  tags # {} =>
          /\ \E t \in tags : swOut.updatedAt = Reported(t)
          /\ \A i \in 1..Len(swOut.times) :
               \E t \in tags : swOut.times[i] = Reported(t)

-----------------------------------------------------------------------------
(* SpecDash: the loaders of the page, their timers and the time-zone choice *)

MaxInflight == 1            \* calls of one loader waiting at a time
Versions == {1, 2}          \* the bodies an endpoint may answer with
Zones == {"local", "UTC"}

Data(v) == [t |-> "data", v |-> v]
Zone(name) == [t |-> "tz", name |-> name]
Drawn(d, z) == [t |-> "chart", data |-> d, tz |-> z]

\* What fetchJson(url).catch(() => null) resolves to.
Fetched == {Null} \cup {Data(v) : v \in Versions}

\* rerenderForTZ, lines 313-332 of main.js: the Dst and the Bx chart are drawn
\* again from state.data when it holds their data, and left as they are
\* otherwise.
rerenderForTZ(data, drawn, z) ==
  [dstMini |-> IF Get(data, "dst") \notin {Null, Undef}
                 THEN Drawn(Get(data, "dst"), z) ELSE drawn.dstMini,
   bx |-> IF Get(data, "fmiBx") \notin {Null, Undef}
            THEN Drawn(Get(data, "fmiBx"), z) ELSE drawn.bx]

dashOthers == <<tz, timeVars, pickVars, swVars, srvVars, pairVars, kpVars,
                httpVars, warmVars, xmlVars, feedVars>>

\* The page after its script has run, lines 339-342 and 1263-1271 of main.js:
\* loadDashboard and loadDst have been called and wait for their responses.
InitDash ==
  /\ tz = 0
  /\ stateData = Obj([solarwind |-> Null, kp |-> Null, rx |-> Null,
                      fmiBx |-> Null, dst |-> Null])
  /\ charts = [dstMini |-> Null, bx |-> Null]
  /\ \E z \in Zones : tzSel = Zone(z)
  /\ inflight = [dash |-> 1, bx |-> 0, dst |-> 1]
  /\ TimeIdle /\ PickIdle /\ SwIdle /\ SrvIdle /\ PairIdle /\ KpIdle
  /\ HttpIdle /\ WarmIdle /\ XmlIdle /\ FeedIdle

\* setInterval(loadDashboard, ...), line 1265: the call runs to its await.
TimerDashboard ==
  /\ inflight.dash + inflight.bx < MaxInflight
  /\ inflight' = [inflight EXCEPT !.dash = @ + 1]
  /\ UNCHANGED <<dashOthers, stateData, charts, tzSel>>

\* setInterval(loadBx, ...), line 1267.
TimerBx ==
  /\ inflight.dash + inflight.bx < MaxInflight
  /\ inflight' = [inflight EXCEPT !.bx = @ + 1]
  /\ UNCHANGED <<dashOthers, stateData, charts, tzSel>>

\* setInterval(loadDst, ...), line 1271.
TimerDst ==
  /\ inflight.dst < MaxInflight
  /\ inflight' = [inflight EXCEPT !.dst = @ + 1]
  /\ UNCHANGED <<dashOthers, stateData, charts, tzSel>>

\* loadDashboard from the resolution of its three requests, lines 1158-1255:
\* state.data is assigned a new object, then loadBx is called and awaited.
loadDashboard ==
  /\ inflight.dash > 0
  /\ \E sw, kp, rx \in Fetched :
       stateData' = Obj([solarwind |-> sw, kp |-> kp, rx |-> rx])
  /\ inflight' = [inflight EXCEPT !.dash = @ - 1, !.bx = @ + 1]
  /\ UNCHANGED <<dashOthers, charts, tzSel>>

\* loadBx from the resolution of its request, lines 1132-1147.
loadBx ==
  /\ inflight.bx > 0
  /\ \E data \in Fetched :
       IF data = Null THEN UNCHANGED <<stateData, charts>>
       ELSE /\ stateData' = Put(stateData, "fmiBx", data)
            /\ charts' = [charts EXCEPT !.bx = Drawn(data, tzSel)]
  /\ inflight' = [inflight EXCEPT !.bx = @ - 1]
  /\ UNCHANGED <<dashOthers, tzSel>>

\* loadDst from the resolution of its request, lines 475-485.
loadDst ==
  /\ inflight.dst > 0
  /\ \E data \in Fetched :
       IF data = Null THEN UNCHANGED <<stateData, charts>>
       ELSE /\ stateData' = Put(stateData, "dst", data)
            /\ charts' = [charts EXCEPT !.dstMini = Drawn(data, tzSel)]
  /\ inflight' = [inflight EXCEPT !.dst = @ - 1]
  /\ UNCHANGED <<dashOthers, tzSel>>

\* The change handler of the time-zone select, lines 237-242.
ChangeTZ ==
  /\ \E z \in Zones :
       /\ Zone(z) # tzSel
       /\ tzSel' = Zone(z)
       /\ charts' = rerenderForTZ(stateData, charts, Zone(z))
  /\ UNCHANGED <<dashOthers, stateData, inflight>>

NextDash ==
  TimerDashboard \/ TimerBx \/ TimerDst \/ loadDashboard \/ loadBx \/ loadDst
    \/ ChangeTZ

SpecDash == InitDash /\ [][NextDash]_vars

\* C30: once loadDst or loadBx has stored its result in state.data, the result
\* stays there until the same loader replaces it, whatever the order of the
\* loadDashboard, loadBx and loadDst callbacks, so that a change of time zone
\* draws the Dst and the Bx chart again from the data last loaded: a chart that
\* has been drawn shows the data state.data holds, in the selected time zone.
C30_LoadedDataStays ==
  /\ charts.dstMini # Null =>
       /\ Get(stateData, "dst") = charts.dstMini.data
       /\ charts.dstMini.tz = tzSel
  /\ charts.bx # Null =>
       /\ Get(stateData, "fmiBx") = charts.bx.data
       /\ charts.bx.tz = tzSel

\* What the code does: state.data.dst and state.data.fmiBx change when their
\* own loader stores a result, and when loadDashboard assigns state.data an
\* object that has neither.
C30_DroppedByDashboard ==
  [][/\ Get(stateData', "dst") # Get(stateData, "dst") =>
          \/ inflight'.dst < inflight.dst
          \/ inflight'.dash < inflight.dash /\ Get(stateData', "dst") = Undef
     /\ Get(stateData', "fmiBx") # Get(stateData, "fmiBx") =>
          \/ inflight'.bx < inflight.bx /\ inflight'.dash = inflight.dash
          \/ /\ inflight'.dash < inflight.dash
             /\ Get(stateData', "fmiBx") = Undef]_vars

\* The Dst chart stands in the time zone selected before the last change,
\* state.data holding no Dst data to draw it again from.
C30_StaleDst ==
  /\ charts.dstMini # Null
  /\ charts.dstMini.tz # tzSel
  /\ Get(stateData, "dst") = Undef

====
